---- MODULE Spec2Model ----
(***************************************************************************)
(* Posture monitoring: the calibration store (PostureCalibrator) and the   *)
(* three session monitors (CalibratedPostureMonitor, BalancedPosture-      *)
(* Monitor, PostureMonitor), each a frame-count debouncer over a per-frame *)
(* classifier verdict.                                                     *)
(*                                                                         *)
(* Units.  Ratio features (headShoulderRatio, shoulderAsymmetry,           *)
(* forwardLean) are integers in hundredths; angles are whole degrees;      *)
(* Date.now() is in milliseconds.  Classifier arithmetic is exact:         *)
(* every comparison of the source is cross-multiplied, never rounded.      *)
(* An optional value (null in the source) is a sequence of length 0 or 1.  *)
(***************************************************************************)
EXTENDS Integers, Sequences, FiniteSets, TLC

VARIABLES
  variant,             \* which monitor class was constructed
  now,                 \* Date.now()
  storage,             \* localStorage['postureCalibration']
  calibrationData,     \* PostureCalibrator.calibrationData
  isCalibrating,       \* PostureCalibrator.isCalibrating
  calibrationFrames,   \* PostureCalibrator.calibrationFrames
  currentPostureType,  \* PostureCalibrator.currentPostureType
  isMonitoring,        \* monitor.isMonitoring
  detectionStrategy,   \* PostureMonitor.detectionStrategy
  sessionBaseline,     \* monitor.sessionBaseline (Balanced, PostureMonitor)
  sessionStartTime,    \* monitor.sessionStartTime / stats.sessionStartTime
  lastDriftCheck,      \* monitor.lastDriftCheck
  slouchFrames,        \* monitor.slouchFrames
  goodPostureFrames,   \* monitor.goodPostureFrames
  isCurrentlySlouched, \* monitor.isCurrentlySlouched
  stats,               \* monitor.stats
  op,                  \* the operation called last
  ret,                 \* what that call returned (or that it threw)
  fired,               \* the callbacks that call invoked, in order
  driftChecked,        \* whether that call ran the periodic check
  progress,            \* the progress addCalibrationFrame reported, if any
  page,                \* demo-app.js: the page's own flags, buttons, timers
  pose,                \* the landmarks of the last pose result, their metrics
  report,              \* the object the last call returned, if it returned one
  screen,              \* CalibrationScreen: its React state, timers, location
  hook,                \* usePostureMonitor: start()'s position, its refs
  slouchRun,           \* history: consecutive slouching verdicts
  goodRun,             \* history: consecutive good verdicts
  openAlerts,          \* history: alerts raised and not yet corrected
  step                 \* position in the scripted scenario

calVars == <<storage, calibrationData, isCalibrating, calibrationFrames,
             currentPostureType>>
monVars == <<isMonitoring, detectionStrategy, sessionBaseline,
             sessionStartTime, lastDriftCheck, slouchFrames,
             goodPostureFrames, isCurrentlySlouched, stats>>
obsVars == <<op, ret, fired, driftChecked, progress>>
histVars == <<slouchRun, goodRun, openAlerts>>
vars == <<variant, now, calVars, monVars, obsVars, histVars, step, page,
          pose, report, screen, hook>>

(***************************************************************************)
(* Bounds of the model.                                                    *)
(***************************************************************************)
ExtraSlouchFrames == 1
ExtraGoodFrames == 1
MaxUncounted == 2
MaxTicks == 1
MaxClockGoodFrames == 0
MaxCalibrationSessionFrames == 2
MaxPageSessionFrames == 1
MaxStatsFrames == 80
MaxVerdictFrames == 3
MaxRestartFrames == 62
MaxBaselineFrames == 3
MaxHookFrames == 3

(***************************************************************************)
(* Program constants.                                                      *)
(***************************************************************************)
driftCheckInterval == 3 * 60 * 1000
framesPerSecond == 10
requiredFrames == 60

None == <<>>
Some(x) == <<x>>
IsNone(o) == o = <<>>
Val(o) == o[1]
NoTime == -1

Abs(x) == IF x < 0 THEN -x ELSE x

(***************************************************************************)
(* The frames the detector delivers.                                       *)
(***************************************************************************)
GoodM ==
  [headShoulderRatio |-> 30, shoulderAsymmetry |-> 2, torsoAngle |-> 5,
   neckAngle |-> 20, forwardLean |-> 10]
SlouchM ==
  [headShoulderRatio |-> 45, shoulderAsymmetry |-> 2, torsoAngle |-> 25,
   neckAngle |-> 20, forwardLean |-> 10]
HunchM ==
  [headShoulderRatio |-> 45, shoulderAsymmetry |-> 2, torsoAngle |-> 30,
   neckAngle |-> 20, forwardLean |-> 10]
Metrics == {GoodM, HunchM}
Frames == {None} \cup {Some(m) : m \in Metrics}

ZeroStats == [totalFrames |-> 0, slouchFrames |-> 0, goodFrames |-> 0,
              alerts |-> 0]

VariantRequiredSlouchFrames(v) ==
  CASE v = "calibrated" -> 100
    [] v = "balanced" -> 60
    [] OTHER -> 30
requiredSlouchFrames == VariantRequiredSlouchFrames(variant)

\* PostureMonitor has no good-streak threshold: its correction is immediate.
VariantRequiredGoodFrames(v) ==
  CASE v = "calibrated" -> 10
    [] v = "balanced" -> 12
    [] OTHER -> 1
requiredGoodFrames == VariantRequiredGoodFrames(variant)

(***************************************************************************)
(* Exact fractions for the deviation scores.                               *)
(***************************************************************************)
Frac(n, d) == [n |-> n, d |-> d]
FracZero == Frac(0, 1)
FracAdd(a, b) == Frac(a.n * b.d + b.n * a.d, a.d * b.d)
\* a > k for a fraction with a positive denominator
FracGt(a, k) == a.n > k * a.d
FracGe(a, k) == a.n >= k * a.d

(***************************************************************************)
(* CalibratedPostureMonitor.analyzePostureVsCalibration, given the current *)
(* metrics c and the goodPosture baseline g.  A zero headShoulderRatio     *)
(* baseline makes the first term a division by zero (Infinity).            *)
(***************************************************************************)
CalIssues(c, g) ==
  LET hd == Abs(c.headShoulderRatio - g.headShoulderRatio)
      td == Abs(c.torsoAngle - g.torsoAngle)
      nd == Abs(c.neckAngle - g.neckAngle)
      ld == Abs(c.forwardLean - g.forwardLean)
  IN  (IF 5 * hd > g.headShoulderRatio
         THEN <<"forward head posture">> ELSE <<>>)
      \o (IF c.shoulderAsymmetry > g.shoulderAsymmetry + 5
            THEN <<"uneven shoulders">> ELSE <<>>)
      \o (IF td > 18 THEN <<"hunched spine">> ELSE <<>>)
      \o (IF nd > 20 THEN <<"head tilted down">> ELSE <<>>)
      \o (IF 10 * ld > 3 * g.forwardLean
            THEN <<"leaning into screen">> ELSE <<>>)

CalDeviationInfinite(c, g) ==
  /\ g.headShoulderRatio = 0
  /\ Abs(c.headShoulderRatio - g.headShoulderRatio) > 0

CalDeviation(c, g) ==
  LET hd == Abs(c.headShoulderRatio - g.headShoulderRatio)
      ad == Abs(c.shoulderAsymmetry - g.shoulderAsymmetry)
      td == Abs(c.torsoAngle - g.torsoAngle)
      nd == Abs(c.neckAngle - g.neckAngle)
      ld == Abs(c.forwardLean - g.forwardLean)
      t1 == IF 5 * hd > g.headShoulderRatio /\ g.headShoulderRatio # 0
              THEN Frac(150 * hd, g.headShoulderRatio) ELSE FracZero
      t2 == IF c.shoulderAsymmetry > g.shoulderAsymmetry + 5
              THEN Frac(20 * ad, g.shoulderAsymmetry + 6) ELSE FracZero
      t3 == IF td > 18 THEN Frac(25 * td, 18) ELSE FracZero
      t4 == IF nd > 20 THEN Frac(20 * nd, 20) ELSE FracZero
      t5 == IF 10 * ld > 3 * g.forwardLean
              THEN Frac(150 * ld, 3 * g.forwardLean + 10) ELSE FracZero
  IN  FracAdd(FracAdd(FracAdd(FracAdd(t1, t2), t3), t4), t5)

CalDeviationGt(c, g, k) ==
  CalDeviationInfinite(c, g) \/ FracGt(CalDeviation(c, g), k)

\* a variant that also takes a torso bent as far as the slouched baseline
\* for slouching
analyzeAgainstBothBaselines(c, g) ==
  [isSlouching |->
     \/ Len(CalIssues(c, g)) >= 2
     \/ CalDeviationGt(c, g, 35)
     \/ /\ calibrationData # <<>>
        /\ calibrationData[1].slouchedPosture # <<>>
        /\ c.torsoAngle >= calibrationData[1].slouchedPosture[1].torsoAngle,
   issues |-> CalIssues(c, g),
   severity |-> IF CalDeviationGt(c, g, 60) THEN "severe"
                ELSE IF CalDeviationGt(c, g, 40) THEN "moderate"
                ELSE "mild"]

\* a variant for which one issue is enough
analyzeAnyIssue(c, g) ==
  [isSlouching |-> Len(CalIssues(c, g)) >= 1 \/ CalDeviationGt(c, g, 35),
   issues |-> CalIssues(c, g),
   severity |-> IF CalDeviationGt(c, g, 60) THEN "severe"
                ELSE IF CalDeviationGt(c, g, 40) THEN "moderate"
                ELSE "mild"]

analyzePostureVsCalibration(c, g) ==
  [isSlouching |-> Len(CalIssues(c, g)) >= 2 \/ CalDeviationGt(c, g, 35),
   issues |-> CalIssues(c, g),
   severity |-> IF CalDeviationGt(c, g, 60) THEN "severe"
                ELSE IF CalDeviationGt(c, g, 40) THEN "moderate"
                ELSE "mild"]

(***************************************************************************)
(* BalancedPostureMonitor.detectSlouch, given the current metrics c and    *)
(* the session baseline b (headShoulderRatio of b positive).               *)
(***************************************************************************)
BalIndicators(c, b) ==
  LET hc == c.headShoulderRatio - b.headShoulderRatio
      ac == c.shoulderAsymmetry - b.shoulderAsymmetry
      tc == Abs(c.torsoAngle - b.torsoAngle)
      lc == c.forwardLean - b.forwardLean
      nc == Abs(c.neckAngle - b.neckAngle)
  IN  (IF 100 * hc > 25 * b.headShoulderRatio
         THEN <<"head forward">> ELSE <<>>)
      \o (IF 100 * ac > 40 * (b.shoulderAsymmetry + 1)
            THEN <<"leaning heavily to one side">> ELSE <<>>)
      \o (IF tc > 20 THEN <<"hunched over">> ELSE <<>>)
      \o (IF 100 * lc > 35 * (b.forwardLean + 1)
            THEN <<"leaning into screen">> ELSE <<>>)
      \o (IF nc > 25 THEN <<"head tilted down">> ELSE <<>>)

BalDeviation(c, b) ==
  LET hc == c.headShoulderRatio - b.headShoulderRatio
      ac == c.shoulderAsymmetry - b.shoulderAsymmetry
      tc == Abs(c.torsoAngle - b.torsoAngle)
      lc == c.forwardLean - b.forwardLean
      nc == Abs(c.neckAngle - b.neckAngle)
      t1 == IF 100 * hc > 25 * b.headShoulderRatio
              THEN Frac(100 * hc, b.headShoulderRatio) ELSE FracZero
      t2 == IF 100 * ac > 40 * (b.shoulderAsymmetry + 1)
              THEN Frac(50 * ac, b.shoulderAsymmetry + 1) ELSE FracZero
      t3 == IF tc > 20 THEN Frac(tc, 1) ELSE FracZero
      t4 == IF 100 * lc > 35 * (b.forwardLean + 1)
              THEN Frac(100 * lc, b.forwardLean + 1) ELSE FracZero
      t5 == IF nc > 25 THEN Frac(nc, 1) ELSE FracZero
  IN  FracAdd(FracAdd(FracAdd(FracAdd(t1, t2), t3), t4), t5)

detectSlouch(c, b) ==
  [isSlouching |-> Len(BalIndicators(c, b)) >= 2
                   /\ FracGt(BalDeviation(c, b), 40),
   issues |-> IF Len(BalIndicators(c, b)) >= 2
                 /\ FracGt(BalDeviation(c, b), 40)
              THEN BalIndicators(c, b) ELSE <<>>,
   severity |-> IF FracGt(BalDeviation(c, b), 80) THEN "severe"
                ELSE IF FracGt(BalDeviation(c, b), 60) THEN "moderate"
                ELSE "mild"]

(***************************************************************************)
(* PostureMonitor.checkRatioBasedPosture against the optional calibration  *)
(* profile, and PostureMonitor.checkDriftBasedPosture against the optional *)
(* session baseline.                                                       *)
(***************************************************************************)
RatioIndicators(c, g) ==
  (IF 20 * Abs(c.headShoulderRatio - g.headShoulderRatio)
        > 3 * g.headShoulderRatio
     THEN <<"forward head posture">> ELSE <<>>)
  \o (IF 2 * c.shoulderAsymmetry > 3 * g.shoulderAsymmetry
        THEN <<"uneven shoulders">> ELSE <<>>)
  \o (IF Abs(c.torsoAngle - g.torsoAngle) > 15
        THEN <<"poor spine alignment">> ELSE <<>>)
  \o (IF 10 * c.forwardLean > 13 * g.forwardLean
        THEN <<"leaning forward">> ELSE <<>>)

checkRatioBasedPosture(c, calibration) ==
  IF IsNone(calibration) \/ IsNone(Val(calibration).goodPosture)
  THEN [isSlouching |-> FALSE, issues |-> <<"No calibration data">>,
        detectionMethod |-> "none"]
  ELSE LET ind == RatioIndicators(c, Val(Val(calibration).goodPosture))
       IN  [isSlouching |-> Len(ind) >= 2,
            issues |-> IF Len(ind) >= 2 THEN ind ELSE <<>>,
            detectionMethod |-> "ratio"]

DriftIndicators(c, b) ==
  (IF 5 * Abs(c.headShoulderRatio - b.headShoulderRatio)
        > b.headShoulderRatio
     THEN <<"head position drifted">> ELSE <<>>)
  \o (IF 4 * (c.shoulderAsymmetry - b.shoulderAsymmetry)
          > b.shoulderAsymmetry + 1
        THEN <<"shoulders became uneven">> ELSE <<>>)
  \o (IF 4 * (c.forwardLean - b.forwardLean) > b.forwardLean + 1
        THEN <<"increased forward lean">> ELSE <<>>)

checkDriftBasedPosture(c, baseline) ==
  IF IsNone(baseline)
  THEN [isDrifting |-> FALSE, issues |-> <<>>]
  ELSE [isDrifting |-> Len(DriftIndicators(c, Val(baseline))) >= 1,
        issues |-> DriftIndicators(c, Val(baseline))]

(***************************************************************************)
(* PostureCalibrator.  A profile carries the two optional baselines and    *)
(* the optional userId that saveCalibration adds; the timestamps           *)
(* calibratedAt and savedAt, which no operation reads, are left out.       *)
(***************************************************************************)
Profile(good, slouched, user) ==
  [goodPosture |-> good, slouchedPosture |-> slouched, userId |-> user]
EmptyProfile == Profile(None, None, None)
PostureTypes == {"good", "slouched"}

\* localStorage.getItem('postureCalibration'): absent, unparsable, or a
\* stored profile
Absent == [kind |-> "absent", data |-> EmptyProfile]
Corrupt == [kind |-> "corrupt", data |-> EmptyProfile]
Stored(p) == [kind |-> "profile", data |-> p]

RECURSIVE SumOf(_, _)
SumOf(frames, key) ==
  IF frames = <<>> THEN 0
  ELSE Head(frames)[key] + SumOf(Tail(frames), key)

\* the per-feature arithmetic mean of completeCalibration
AverageMetrics(frames) ==
  [key \in DOMAIN GoodM |-> SumOf(frames, key) \div Len(frames)]

\* a variant that looks at the goodPosture baseline only
hasGoodCalibration ==
  /\ ~IsNone(calibrationData)
  /\ ~IsNone(Val(calibrationData).goodPosture)

hasCalibration ==
  /\ ~IsNone(calibrationData)
  /\ ~IsNone(Val(calibrationData).goodPosture)
  /\ ~IsNone(Val(calibrationData).slouchedPosture)

Returns(r) == ret' = r /\ fired' = <<>> /\ driftChecked' = FALSE

\* a variant that keeps the frames collected so far
startCalibrationKeeping(postureType) ==
  /\ op' = "startCalibration"
  /\ progress' = None
  /\ isCalibrating' = TRUE
  /\ currentPostureType' = postureType
  /\ Returns("undefined")
  /\ UNCHANGED <<variant, now, storage, calibrationData, calibrationFrames,
                 monVars>>

startCalibration(postureType) ==
  /\ op' = "startCalibration"
  /\ progress' = None
  /\ isCalibrating' = TRUE
  /\ calibrationFrames' = <<>>
  /\ currentPostureType' = postureType
  /\ Returns("undefined")
  /\ UNCHANGED <<variant, now, storage, calibrationData, monVars>>

\* a variant that files every completed baseline as the good posture
CompletedDataAsGood(frames) ==
  LET base == IF IsNone(calibrationData) THEN EmptyProfile
              ELSE Val(calibrationData)
  IN  Some([base EXCEPT !.goodPosture = Some(AverageMetrics(frames))])

\* completeCalibration as called from addCalibrationFrame, on the frames
\* collected including the one just pushed
CompletedData(frames) ==
  LET base == IF IsNone(calibrationData) THEN EmptyProfile
              ELSE Val(calibrationData)
  IN  Some([base EXCEPT ![currentPostureType \o "Posture"] =
                          Some(AverageMetrics(frames))])

\* a variant that reports the progress as it was before the frame was pushed
ProgressBeforePush(frames) == Frac(100 * (Len(frames) - 1), requiredFrames)

\* progress = (calibrationFrames.length / requiredFrames) * 100, exactly
ProgressOf(frames) == Frac(100 * Len(frames), requiredFrames)

\* a variant that finalizes one frame late
CollectionCompleteLate(frames) == Len(frames) > requiredFrames

\* calibrationFrames.length >= requiredFrames
CollectionComplete(frames) == Len(frames) >= requiredFrames

\* what addCalibrationFrame does to the calibrator and what it returns:
\* nothing and undefined, or the frame pushed and the progress record
addCalibrationFrameCore(metrics) ==
  IF ~isCalibrating \/ IsNone(metrics)
  THEN /\ progress' = None
       /\ UNCHANGED <<calibrationData, isCalibrating, calibrationFrames>>
  ELSE LET frames == Append(calibrationFrames, Val(metrics))
       IN  /\ calibrationFrames' = frames
           /\ progress' = Some(ProgressOf(frames))
           /\ IF CollectionComplete(frames)
              THEN /\ calibrationData' = CompletedData(frames)
                   /\ isCalibrating' = FALSE
              ELSE UNCHANGED <<calibrationData, isCalibrating>>

addCalibrationFrame(metrics) ==
  /\ op' = "addCalibrationFrame"
  /\ addCalibrationFrameCore(metrics)
  /\ Returns(IF ~isCalibrating \/ IsNone(metrics) THEN "undefined"
             ELSE "progress")
  /\ UNCHANGED <<variant, now, storage, currentPostureType, monVars>>

(***************************************************************************)
(* The features as completeCalibration computes with them: JavaScript      *)
(* numbers, IEEE-754 binary64.  The monitors are modelled over features in *)
(* hundredths and degrees, where the mean of identical frames is exact;    *)
(* the operators below give the sum and the quotient as the doubles they   *)
(* are.  A positive double is its exponent e and the Precision bits of its *)
(* significand m, most significant first, m[1] = 1; its value is           *)
(* m[1].m[2]...m[Precision] (binary) times 2^e.  Zero has m all 0.  Every  *)
(* operation rounds to nearest, ties to even.                              *)
(***************************************************************************)
Precision == 53

Zeros(n) == [i \in 1..n |-> 0]
DZero == [e |-> 0, m |-> Zeros(Precision)]
IsDZero(a) == a.m[1] = 0

RECURSIVE Pow2(_)
Pow2(n) == IF n = 0 THEN 1 ELSE 2 * Pow2(n - 1)

\* 2^n modulo k
RECURSIVE Pow2Mod(_, _)
Pow2Mod(n, k) ==
  IF n = 0 THEN 1 % k
  ELSE IF n % 2 = 1 THEN (2 * Pow2Mod(n - 1, k)) % k
  ELSE LET half == Pow2Mod(n \div 2, k) IN (half * half) % k

\* the carry into position i - 1 when the bit sequences x and y are added:
\* some position from i on generates a carry and all before it pass it on
CarryFrom(x, y, i) ==
  IF \E j \in i..Len(x) : /\ x[j] + y[j] = 2
                          /\ \A h \in i..(j - 1) : x[h] + y[h] = 1
  THEN 1 ELSE 0

\* x + y for two bit sequences of one length, with the carry out in front
AddBits(x, y) ==
  [i \in 1..(Len(x) + 1) |->
     IF i = 1 THEN CarryFrom(x, y, 1)
     ELSE (x[i - 1] + y[i - 1] + CarryFrom(x, y, i)) % 2]

\* the double nearest to the number whose bits (leading bit 1, of weight
\* 2^e) are given, sticky telling whether nonzero bits follow them
RoundToDouble(bits, sticky, e) ==
  LET keep == SubSeq(bits, 1, Precision)
      guard == IF Len(bits) > Precision THEN bits[Precision + 1] ELSE 0
      rest == sticky \/ \E i \in (Precision + 2)..Len(bits) : bits[i] = 1
      up == guard = 1 /\ (rest \/ keep[Precision] = 1)
      inc == AddBits(keep, [i \in 1..Precision |->
                              IF i = Precision THEN 1 ELSE 0])
  IN  IF ~up THEN [e |-> e, m |-> keep]
      ELSE IF inc[1] = 1 THEN [e |-> e + 1, m |-> SubSeq(inc, 1, Precision)]
      ELSE [e |-> e, m |-> SubSeq(inc, 2, Precision + 1)]

\* a + b
DAdd(a, b) ==
  IF IsDZero(a) THEN b
  ELSE IF IsDZero(b) THEN a
  ELSE LET hi == IF a.e >= b.e THEN a ELSE b
           lo == IF a.e >= b.e THEN b ELSE a
           d == hi.e - lo.e
           sum == AddBits(hi.m \o Zeros(d), Zeros(d) \o lo.m)
       IN  IF sum[1] = 1 THEN RoundToDouble(sum, FALSE, hi.e + 1)
           ELSE RoundToDouble(Tail(sum), FALSE, hi.e)

\* the number with the bits x[lo..hi], modulo k
RECURSIVE BitsMod(_, _, _, _)
BitsMod(x, lo, hi, k) ==
  IF lo > hi THEN 0
  ELSE IF lo = hi THEN x[lo] % k
  ELSE LET mid == (lo + hi) \div 2
       IN  (BitsMod(x, lo, mid, k) * Pow2Mod(hi - mid, k)
              + BitsMod(x, mid + 1, hi, k)) % k

\* a / k for a whole number k, 1 <= k < 2^(Precision - 1), by long
\* division: quotient bit i is the remainder so far, doubled, plus bit i,
\* over k
DDiv(a, k) ==
  IF IsDZero(a) THEN a
  ELSE LET x == a.m \o Zeros(Precision)
           L == Len(x)
           q == [i \in 1..L |-> (2 * BitsMod(x, 1, i - 1, k) + x[i]) \div k]
           p == CHOOSE i \in 1..L : q[i] = 1 /\ \A j \in 1..(i - 1) : q[j] = 0
       IN  RoundToDouble(SubSeq(q, p, L), BitsMod(x, 1, L, k) > 0,
                         a.e + 1 - p)

\* the exponent of n / d
RECURSIVE ExponentOf(_, _)
ExponentOf(n, d) ==
  IF n >= 2 * d THEN ExponentOf(n, 2 * d) + 1
  ELSE IF n < d THEN ExponentOf(2 * n, d) - 1
  ELSE 0

\* the double that the decimal literal n / d denotes
DoubleOf(n, d) ==
  IF n = 0 THEN DZero
  ELSE LET e == ExponentOf(n, d)
           num == IF e < 0 THEN n * Pow2(-e) ELSE n
           den == IF e < 0 THEN d ELSE d * Pow2(e)
           rem(i) == ((num % den) * Pow2Mod(i, den)) % den
           bits == [i \in 1..(Precision + 1) |->
                      IF i = 1 THEN 1 ELSE (2 * rem(i - 2)) \div den]
       IN  RoundToDouble(bits, rem(Precision) > 0, e)

\* a * 100: the significand times 64, 32 and 4, added and rounded
DTimes100(a) ==
  IF IsDZero(a) THEN a
  ELSE LET sum == AddBits(<<0>> \o AddBits(a.m \o Zeros(6),
                                          <<0>> \o a.m \o Zeros(5)),
                          Zeros(6) \o a.m \o Zeros(2))
           L == Len(sum)
           p == CHOOSE i \in 1..L : sum[i] = 1 /\ \A j \in 1..(i - 1) : sum[j] = 0
       IN  RoundToDouble(SubSeq(sum, p, L), FALSE, a.e + 10 - p)

\* the whole number with the bits x[1..n]
RECURSIVE BitsValue(_, _)
BitsValue(x, n) == IF n = 0 THEN 0 ELSE 2 * BitsValue(x, n - 1) + x[n]

\* the tenths of a, cut off instead of rounded
toFixedTruncated(a) ==
  IF IsDZero(a) \/ a.e < -4 THEN 0
  ELSE BitsValue(AddBits(a.m \o Zeros(3), Zeros(2) \o a.m \o Zeros(1)),
                 a.e + 5)

\* a.toFixed(1) for 0 <= a < 2^7, as the number of tenths it shows: the
\* whole number n with n / 10 nearest to a, the larger of two equally near.
\* Ten times a is the significand times 8 plus the significand times 2.
toFixed(a) ==
  IF IsDZero(a) \/ a.e < -5 THEN 0
  ELSE LET tenfold == AddBits(a.m \o Zeros(3), Zeros(2) \o a.m \o Zeros(1))
           whole == a.e + 5
       IN  BitsValue(tenfold, whole) + tenfold[whole + 1]

\* the doubles the detector delivers for a frame given in hundredths
\* (ratios, lean) and degrees (angles)
Measured(metrics) ==
  [headShoulderRatio |-> DoubleOf(metrics.headShoulderRatio, 100),
   shoulderAsymmetry |-> DoubleOf(metrics.shoulderAsymmetry, 100),
   torsoAngle |-> DoubleOf(metrics.torsoAngle, 1),
   neckAngle |-> DoubleOf(metrics.neckAngle, 1),
   forwardLean |-> DoubleOf(metrics.forwardLean, 100)]

\* calibrationFrames.forEach(frame => avgMetrics[key] += frame[key]) over
\* frames lo..hi: one rounded addition per frame, in order, each carried
\* out before the next
RECURSIVE DSumOf(_, _, _, _, _)
DSumOf(acc, frames, key, lo, hi) ==
  IF lo > hi THEN acc
  ELSE IF lo = hi THEN DAdd(acc, frames[lo][key])
  ELSE LET mid == (lo + hi) \div 2
       IN  CHOOSE total \in {DSumOf(left, frames, key, mid + 1, hi) :
                               left \in {DSumOf(acc, frames, key, lo, mid)}} :
             TRUE

\* avgMetrics[key] /= frameCount
AverageMetricsDouble(frames) ==
  [key \in DOMAIN GoodM |->
     DDiv(DSumOf(DZero, frames, key, 1, Len(frames)), Len(frames))]

CompletedDataDouble(frames) ==
  LET base == IF IsNone(calibrationData) THEN EmptyProfile
              ELSE Val(calibrationData)
  IN  Some([base EXCEPT ![currentPostureType \o "Posture"] =
                          Some(AverageMetricsDouble(frames))])

\* addCalibrationFrame on frames that carry doubles
addCalibrationFrameDouble(metrics) ==
  /\ op' = "addCalibrationFrame"
  /\ IF ~isCalibrating \/ IsNone(metrics)
     THEN /\ progress' = None
          /\ Returns("undefined")
          /\ UNCHANGED <<calibrationData, isCalibrating, calibrationFrames>>
     ELSE LET frames == Append(calibrationFrames, Val(metrics))
          IN  /\ calibrationFrames' = frames
              /\ progress' = Some(ProgressOf(frames))
              /\ Returns("progress")
              /\ IF Len(frames) >= requiredFrames
                 THEN /\ calibrationData' = CompletedDataDouble(frames)
                      /\ isCalibrating' = FALSE
                 ELSE UNCHANGED <<calibrationData, isCalibrating>>
  /\ UNCHANGED <<variant, now, storage, currentPostureType, monVars>>

\* a variant that takes whatever profile is stored, whoever saved it
loadCalibrationAnyUser(userId) ==
  /\ op' = "loadCalibration"
  /\ progress' = None
  /\ IF storage.kind = "profile"
     THEN /\ calibrationData' = Some(storage.data)
          /\ Returns("true")
     ELSE /\ UNCHANGED calibrationData
          /\ Returns("false")
  /\ UNCHANGED <<variant, now, storage, isCalibrating, calibrationFrames,
                 currentPostureType, monVars>>

\* a variant without the try / catch around JSON.parse
loadCalibrationUncaught(userId) ==
  /\ op' = "loadCalibration"
  /\ progress' = None
  /\ IF storage.kind = "profile" /\ storage.data.userId = Some(userId)
     THEN /\ calibrationData' = Some(storage.data)
          /\ Returns("true")
     ELSE /\ UNCHANGED calibrationData
          /\ Returns(IF storage.kind = "corrupt" THEN "throws" ELSE "false")
  /\ UNCHANGED <<variant, now, storage, isCalibrating, calibrationFrames,
                 currentPostureType, monVars>>

loadCalibration(userId) ==
  /\ op' = "loadCalibration"
  /\ progress' = None
  /\ IF storage.kind = "profile" /\ storage.data.userId = Some(userId)
     THEN /\ calibrationData' = Some(storage.data)
          /\ Returns("true")
     ELSE /\ UNCHANGED calibrationData
          /\ Returns("false")
  /\ UNCHANGED <<variant, now, storage, isCalibrating, calibrationFrames,
                 currentPostureType, monVars>>

(***************************************************************************)
(* PostureCalibrator.checkIfRecalibrationNeeded.  The deviation of a       *)
(* metric is |(current - calibrated) / calibrated| as JavaScript computes  *)
(* it: NaN for 0 / 0 and for a metric the baseline does not have, Infinity *)
(* for a nonzero difference over 0, otherwise the exact quotient.          *)
(***************************************************************************)
tolerance == Frac(15, 100)

Deviation(currentMetrics, calibrated, metric) ==
  IF metric \notin DOMAIN calibrated THEN [kind |-> "NaN", value |-> FracZero]
  ELSE LET difference == currentMetrics[metric] - calibrated[metric]
       IN  IF calibrated[metric] # 0
           THEN [kind |-> "finite",
                 value |-> Frac(Abs(difference), Abs(calibrated[metric]))]
           ELSE IF difference = 0 THEN [kind |-> "NaN", value |-> FracZero]
           ELSE [kind |-> "Infinity", value |-> FracZero]

\* a variant in which a deviation that is not a number counts as too large
AboveToleranceOrNaN(deviation) ==
  \/ deviation.kind \in {"Infinity", "NaN"}
  \/ /\ deviation.kind = "finite"
     /\ deviation.value.n * tolerance.d > tolerance.n * deviation.value.d

\* deviation > tolerance: false for NaN
AboveTolerance(deviation) ==
  \/ deviation.kind = "Infinity"
  \/ /\ deviation.kind = "finite"
     /\ deviation.value.n * tolerance.d > tolerance.n * deviation.value.d

checkIfRecalibrationNeeded(currentMetrics) ==
  /\ op' = "checkIfRecalibrationNeeded"
  /\ progress' = None
  /\ IF IsNone(calibrationData) THEN Returns("needed")
     ELSE IF IsNone(Val(calibrationData).goodPosture) THEN Returns("needed")
     ELSE LET calibrated == Val(Val(calibrationData).goodPosture)
          IN  IF \E metric \in DOMAIN currentMetrics :
                   AboveTolerance(Deviation(currentMetrics, calibrated,
                                            metric))
              THEN Returns("needed")
              ELSE Returns("withinRange")
  /\ UNCHANGED <<variant, now, calVars, monVars>>


\* saveCalibration: the profile with userId added goes to localStorage,
\* unless there is none or setItem throws (quota), which is caught
saveCalibration(userId, quotaExceeded) ==
  /\ op' = "saveCalibration"
  /\ progress' = None
  /\ IF IsNone(calibrationData) \/ quotaExceeded
     THEN /\ UNCHANGED storage
          /\ Returns("false")
     ELSE /\ storage' = Stored([Val(calibrationData) EXCEPT
                                  !.userId = Some(userId)])
          /\ Returns("true")
  /\ UNCHANGED <<variant, now, calibrationData, isCalibrating,
                 calibrationFrames, currentPostureType, monVars>>

clearCalibration ==
  /\ op' = "clearCalibration"
  /\ progress' = None
  /\ calibrationData' = None
  /\ storage' = Absent
  /\ Returns("undefined")
  /\ UNCHANGED <<variant, now, isCalibrating, calibrationFrames,
                 currentPostureType, monVars>>

(***************************************************************************)
(* The periodic check at the end of every processFrame: it only logs (and, *)
(* in PostureMonitor, notifies onDriftDetected) and restarts the clock.    *)
(***************************************************************************)
DriftCheckDue == now - lastDriftCheck >= driftCheckInterval

\* a variant that runs the check on every counted frame
PeriodicCheckEveryFrame == lastDriftCheck' = now /\ driftChecked' = TRUE

PeriodicCheck ==
  IF DriftCheckDue
  THEN lastDriftCheck' = now /\ driftChecked' = TRUE
  ELSE UNCHANGED lastDriftCheck /\ driftChecked' = FALSE

Verdict(isSlouching) == IF isSlouching THEN "slouching" ELSE "notSlouching"

(***************************************************************************)
(* CalibratedPostureMonitor                                                *)
(***************************************************************************)
\* a variant that resets the session before it looks for the calibration
CalStartEager ==
  /\ op' = "start"
  /\ progress' = None
  /\ variant = "calibrated"
  /\ isMonitoring' = (isMonitoring \/ hasCalibration)
  /\ sessionStartTime' = now
  /\ lastDriftCheck' = now
  /\ slouchFrames' = 0
  /\ goodPostureFrames' = 0
  /\ isCurrentlySlouched' = FALSE
  /\ stats' = ZeroStats
  /\ Returns(IF hasCalibration THEN "true" ELSE "false")
  /\ UNCHANGED <<detectionStrategy, sessionBaseline>>
  /\ UNCHANGED <<variant, now, calVars>>

CalStart ==
  /\ op' = "start"
  /\ progress' = None
  /\ variant = "calibrated"
  /\ IF ~hasCalibration
     THEN /\ Returns("false")
          /\ UNCHANGED monVars
     ELSE /\ isMonitoring' = TRUE
          /\ sessionStartTime' = now
          /\ lastDriftCheck' = now
          /\ slouchFrames' = 0
          /\ goodPostureFrames' = 0
          /\ isCurrentlySlouched' = FALSE
          /\ stats' = ZeroStats
          /\ Returns("true")
          /\ UNCHANGED <<detectionStrategy, sessionBaseline>>
  /\ UNCHANGED <<variant, now, calVars>>

CalStop ==
  /\ op' = "stop"
  /\ progress' = None
  /\ variant = "calibrated"
  /\ isMonitoring' = FALSE
  /\ Returns("undefined")
  /\ UNCHANGED <<variant, now, calVars, detectionStrategy, sessionBaseline,
                 sessionStartTime, lastDriftCheck, slouchFrames,
                 goodPostureFrames, isCurrentlySlouched, stats>>

\* getCalibrationData() is null, or its goodPosture is: reading a property
\* of null throws a TypeError out of analyzePostureVsCalibration
CalAnalysisThrows ==
  IsNone(calibrationData) \/ IsNone(Val(calibrationData).goodPosture)

CalFrameIgnored(metrics) == ~isMonitoring \/ IsNone(metrics)

\* analyzePostureVsCalibration(currentMetrics) called on its own: pose keeps
\* the metrics passed, report the object returned together with the value
\* totalDeviation had when the verdict was taken (its finite terms, and
\* whether a division by a zero tolerance made it Infinity)
Analyze(currentMetrics) ==
  /\ op' = "analyzePostureVsCalibration"
  /\ progress' = None
  /\ variant = "calibrated"
  /\ pose' = [landmarks |-> None, metrics |-> Some(currentMetrics)]
  /\ IF CalAnalysisThrows
     THEN /\ report' = None
          /\ Returns("throw")
     ELSE LET goodPosture == Val(Val(calibrationData).goodPosture)
          IN  /\ report' =
                   Some([analysis |->
                           analyzePostureVsCalibration(currentMetrics,
                                                       goodPosture),
                         infinite |->
                           CalDeviationInfinite(currentMetrics, goodPosture),
                         totalDeviation |->
                           CalDeviation(currentMetrics, goodPosture)])
              /\ Returns("analysis")
  /\ UNCHANGED <<variant, now, calVars, monVars>>

\* a variant that leaves the other streak counter running
KeepCounter(streak) == streak

\* a frame of one kind resets the streak counter of the other kind
ResetCounter(streak) == 0

\* a variant that forgets the alert already raised
CalAlertDueEveryFrame(streak) == streak >= requiredSlouchFrames

CalAlertDue(streak) == streak >= requiredSlouchFrames /\ ~isCurrentlySlouched

CalCorrectionDue(streak) == isCurrentlySlouched /\ streak >= requiredGoodFrames

CalProcessFrame(metrics) ==
  /\ op' = "processFrame"
  /\ progress' = None
  /\ variant = "calibrated"
  /\ IF CalFrameIgnored(metrics)
     THEN /\ Returns("null")
          /\ UNCHANGED monVars
     ELSE IF CalAnalysisThrows
     THEN /\ stats' = [stats EXCEPT !.totalFrames = @ + 1]
          /\ Returns("throw")
          /\ UNCHANGED <<isMonitoring, detectionStrategy, sessionBaseline,
                         sessionStartTime, lastDriftCheck, slouchFrames,
                         goodPostureFrames, isCurrentlySlouched>>
     ELSE LET postureAnalysis ==
                analyzePostureVsCalibration(Val(metrics),
                    Val(Val(calibrationData).goodPosture))
          IN  /\ IF postureAnalysis.isSlouching
                 THEN /\ slouchFrames' = slouchFrames + 1
                      /\ goodPostureFrames' = ResetCounter(goodPostureFrames)
                      /\ IF CalAlertDue(slouchFrames + 1)
                         THEN /\ isCurrentlySlouched' = TRUE
                              /\ stats' = [stats EXCEPT
                                    !.totalFrames = @ + 1,
                                    !.slouchFrames = @ + 1,
                                    !.alerts = @ + 1]
                              /\ fired' = <<"onSlouchDetected">>
                         ELSE /\ UNCHANGED isCurrentlySlouched
                              /\ stats' = [stats EXCEPT
                                    !.totalFrames = @ + 1,
                                    !.slouchFrames = @ + 1]
                              /\ fired' = <<>>
                 ELSE /\ slouchFrames' = ResetCounter(slouchFrames)
                      /\ goodPostureFrames' = goodPostureFrames + 1
                      /\ stats' = [stats EXCEPT !.totalFrames = @ + 1,
                                                !.goodFrames = @ + 1]
                      /\ IF CalCorrectionDue(goodPostureFrames + 1)
                         THEN /\ isCurrentlySlouched' = FALSE
                              /\ fired' = <<"onPostureCorrected">>
                         ELSE /\ UNCHANGED isCurrentlySlouched
                              /\ fired' = <<>>
              /\ PeriodicCheck
              /\ ret' = Verdict(postureAnalysis.isSlouching)
              /\ UNCHANGED <<isMonitoring, detectionStrategy,
                             sessionBaseline, sessionStartTime>>
  /\ UNCHANGED <<variant, now, calVars>>

\* a variant that reports a correction when it clears an active alert
CalResetSessionNotifying ==
  /\ op' = "resetSession"
  /\ progress' = None
  /\ variant = "calibrated"
  /\ lastDriftCheck' = now
  /\ slouchFrames' = 0
  /\ goodPostureFrames' = 0
  /\ isCurrentlySlouched' = FALSE
  /\ ret' = "undefined"
  /\ fired' = IF isCurrentlySlouched THEN <<"onPostureCorrected">> ELSE <<>>
  /\ driftChecked' = FALSE
  /\ UNCHANGED <<variant, now, calVars, isMonitoring, detectionStrategy,
                 sessionBaseline, sessionStartTime, stats>>

CalResetSession ==
  /\ op' = "resetSession"
  /\ progress' = None
  /\ variant = "calibrated"
  /\ lastDriftCheck' = now
  /\ slouchFrames' = 0
  /\ goodPostureFrames' = 0
  /\ isCurrentlySlouched' = FALSE
  /\ Returns("undefined")
  /\ UNCHANGED <<variant, now, calVars, isMonitoring, detectionStrategy,
                 sessionBaseline, sessionStartTime, stats>>

(***************************************************************************)
(* BalancedPostureMonitor.  Its session start time lives in                *)
(* stats.sessionStartTime, modelled by sessionStartTime; start() assigns   *)
(* that one field of stats and leaves the counters of stats as they are.   *)
(***************************************************************************)
BalStart ==
  /\ op' = "start"
  /\ progress' = None
  /\ variant = "balanced"
  /\ isMonitoring' = TRUE
  /\ sessionBaseline' = None
  /\ lastDriftCheck' = now
  /\ sessionStartTime' = now
  /\ slouchFrames' = 0
  /\ goodPostureFrames' = 0
  /\ isCurrentlySlouched' = FALSE
  /\ Returns("undefined")
  /\ UNCHANGED <<variant, now, calVars, detectionStrategy, stats>>

BalStop ==
  /\ op' = "stop"
  /\ progress' = None
  /\ variant = "balanced"
  /\ isMonitoring' = FALSE
  /\ Returns("undefined")
  /\ UNCHANGED <<variant, now, calVars, detectionStrategy, sessionBaseline,
                 sessionStartTime, lastDriftCheck, slouchFrames,
                 goodPostureFrames, isCurrentlySlouched, stats>>

BalFrameIgnored(metrics) == ~isMonitoring \/ IsNone(metrics)

BalAlertDue(streak) == streak >= requiredSlouchFrames /\ ~isCurrentlySlouched

\* a variant that needs one good verdict too many
BalCorrectionDueLate(streak) ==
  isCurrentlySlouched /\ streak > requiredGoodFrames

BalCorrectionDue(streak) == isCurrentlySlouched /\ streak >= requiredGoodFrames

BalProcessFrame(metrics) ==
  /\ op' = "processFrame"
  /\ progress' = None
  /\ variant = "balanced"
  /\ IF BalFrameIgnored(metrics)
     THEN /\ Returns("null")
          /\ UNCHANGED monVars
     ELSE IF IsNone(sessionBaseline)
     THEN /\ stats' = [stats EXCEPT !.totalFrames = @ + 1]
          /\ sessionBaseline' = metrics
          /\ Returns("notSlouching")
          /\ UNCHANGED <<isMonitoring, detectionStrategy, sessionStartTime,
                         lastDriftCheck, slouchFrames, goodPostureFrames,
                         isCurrentlySlouched>>
     ELSE LET slouchResult == detectSlouch(Val(metrics), Val(sessionBaseline))
          IN  /\ IF slouchResult.isSlouching
                 THEN /\ slouchFrames' = slouchFrames + 1
                      /\ goodPostureFrames' = ResetCounter(goodPostureFrames)
                      /\ IF BalAlertDue(slouchFrames + 1)
                         THEN /\ isCurrentlySlouched' = TRUE
                              /\ stats' = [stats EXCEPT
                                    !.totalFrames = @ + 1,
                                    !.slouchFrames = @ + 1,
                                    !.alerts = @ + 1]
                              /\ fired' = <<"onSlouchDetected">>
                         ELSE /\ UNCHANGED isCurrentlySlouched
                              /\ stats' = [stats EXCEPT
                                    !.totalFrames = @ + 1,
                                    !.slouchFrames = @ + 1]
                              /\ fired' = <<>>
                 ELSE /\ slouchFrames' = ResetCounter(slouchFrames)
                      /\ goodPostureFrames' = goodPostureFrames + 1
                      /\ stats' = [stats EXCEPT !.totalFrames = @ + 1,
                                                !.goodFrames = @ + 1]
                      /\ IF BalCorrectionDue(goodPostureFrames + 1)
                         THEN /\ isCurrentlySlouched' = FALSE
                              /\ fired' = <<"onPostureCorrected">>
                         ELSE /\ UNCHANGED isCurrentlySlouched
                              /\ fired' = <<>>
              /\ PeriodicCheck
              /\ ret' = Verdict(slouchResult.isSlouching)
              /\ UNCHANGED <<isMonitoring, detectionStrategy,
                             sessionBaseline, sessionStartTime>>
  /\ UNCHANGED <<variant, now, calVars>>

\* a variant that keeps the session baseline
BalResetSessionKeepingBaseline ==
  /\ op' = "resetSession"
  /\ progress' = None
  /\ variant = "balanced"
  /\ lastDriftCheck' = now
  /\ slouchFrames' = 0
  /\ goodPostureFrames' = 0
  /\ isCurrentlySlouched' = FALSE
  /\ Returns("undefined")
  /\ UNCHANGED <<variant, now, calVars, isMonitoring, detectionStrategy,
                 sessionBaseline, sessionStartTime, stats>>

BalResetSession ==
  /\ op' = "resetSession"
  /\ progress' = None
  /\ variant = "balanced"
  /\ sessionBaseline' = None
  /\ lastDriftCheck' = now
  /\ slouchFrames' = 0
  /\ goodPostureFrames' = 0
  /\ isCurrentlySlouched' = FALSE
  /\ Returns("undefined")
  /\ UNCHANGED <<variant, now, calVars, isMonitoring, detectionStrategy,
                 sessionStartTime, stats>>

(***************************************************************************)
(* PostureMonitor (demo-app.js).  It has no good-streak counter and no     *)
(* session start time; start() leaves slouchFrames and isCurrentlySlouched *)
(* as they are.                                                            *)
(***************************************************************************)
Strategies == {"ratio", "drift", "both"}

DemoStart(strategy) ==
  /\ op' = "start"
  /\ progress' = None
  /\ variant = "demo"
  /\ isMonitoring' = TRUE
  /\ detectionStrategy' = strategy
  /\ sessionBaseline' = None
  /\ lastDriftCheck' = now
  /\ stats' = ZeroStats
  /\ Returns("undefined")
  /\ UNCHANGED <<variant, now, calVars, sessionStartTime, slouchFrames,
                 goodPostureFrames, isCurrentlySlouched>>

DemoStop ==
  /\ op' = "stop"
  /\ progress' = None
  /\ variant = "demo"
  /\ isMonitoring' = FALSE
  /\ Returns("undefined")
  /\ UNCHANGED <<variant, now, calVars, detectionStrategy, sessionBaseline,
                 sessionStartTime, lastDriftCheck, slouchFrames,
                 goodPostureFrames, isCurrentlySlouched, stats>>

\* the verdict of one frame: the ratio result if it says slouching,
\* otherwise the drift result turned into a slouching verdict
\* a variant in which the drift check never decides
DemoVerdictRatioOnly(c, baseline) ==
  LET ratioResult == checkRatioBasedPosture(c, calibrationData)
  IN  IF detectionStrategy \in {"ratio", "both"} /\ ratioResult.isSlouching
      THEN [isSlouching |-> TRUE, issues |-> ratioResult.issues,
            detectionMethod |-> "ratio"]
      ELSE [isSlouching |-> FALSE, issues |-> <<>>,
            detectionMethod |-> "none"]

DemoVerdict(c, baseline) ==
  LET ratioOn == detectionStrategy \in {"ratio", "both"}
      driftOn == detectionStrategy \in {"drift", "both"}
      ratioResult == checkRatioBasedPosture(c, calibrationData)
      driftResult == checkDriftBasedPosture(c, baseline)
  IN  IF ratioOn /\ ratioResult.isSlouching
      THEN [isSlouching |-> TRUE, issues |-> ratioResult.issues,
            detectionMethod |-> "ratio"]
      ELSE IF driftOn /\ driftResult.isDrifting
      THEN [isSlouching |-> TRUE, issues |-> driftResult.issues,
            detectionMethod |-> "drift"]
      ELSE [isSlouching |-> FALSE, issues |-> <<>>,
            detectionMethod |-> "none"]

\* a variant that processes frames while stopped
DemoFrameIgnoredNullOnly(metrics) == IsNone(metrics)

DemoFrameIgnored(metrics) == ~isMonitoring \/ IsNone(metrics)

DemoAlertDue(streak) == streak >= requiredSlouchFrames /\ ~isCurrentlySlouched

DemoCorrectionDue == isCurrentlySlouched

\* what processFrame does to the monitor, what it returns and invokes
DemoProcessFrameCore(metrics) ==
  IF DemoFrameIgnored(metrics)
  THEN /\ Returns("null")
       /\ UNCHANGED monVars
  ELSE LET baseline == IF IsNone(sessionBaseline) THEN metrics
                       ELSE sessionBaseline
           result == DemoVerdict(Val(metrics), baseline)
       IN  /\ sessionBaseline' = baseline
           /\ IF result.isSlouching
              THEN /\ slouchFrames' = slouchFrames + 1
                   /\ IF DemoAlertDue(slouchFrames + 1)
                      THEN /\ isCurrentlySlouched' = TRUE
                           /\ stats' = [stats EXCEPT
                                 !.totalFrames = @ + 1,
                                 !.slouchFrames = @ + 1,
                                 !.alerts = @ + 1]
                           /\ fired' = <<"onSlouchDetected">>
                      ELSE /\ UNCHANGED isCurrentlySlouched
                           /\ stats' = [stats EXCEPT
                                 !.totalFrames = @ + 1,
                                 !.slouchFrames = @ + 1]
                           /\ fired' = <<>>
              ELSE /\ stats' = [stats EXCEPT !.totalFrames = @ + 1,
                                             !.goodFrames = @ + 1]
                   /\ slouchFrames' = 0
                   /\ IF DemoCorrectionDue
                      THEN /\ isCurrentlySlouched' = FALSE
                           /\ fired' = <<"onPostureCorrected">>
                      ELSE /\ UNCHANGED isCurrentlySlouched
                           /\ fired' = <<>>
           /\ PeriodicCheck
           /\ ret' = Verdict(result.isSlouching)
           /\ UNCHANGED <<isMonitoring, detectionStrategy,
                          sessionStartTime, goodPostureFrames>>

DemoProcessFrame(metrics) ==
  /\ op' = "processFrame"
  /\ progress' = None
  /\ variant = "demo"
  /\ DemoProcessFrameCore(metrics)
  /\ UNCHANGED <<variant, now, calVars>>

\* processFrame(metrics) with the object it returns: pose keeps the metrics
\* passed, report the result (its reason as the list of the indicators
\* that join(', ') puts into the string)
DemoFrameResult(metrics) ==
  /\ DemoProcessFrame(metrics)
  /\ pose' = [landmarks |-> None, metrics |-> metrics]
  /\ report' = IF DemoFrameIgnored(metrics) THEN None
               ELSE Some(DemoVerdict(Val(metrics), sessionBaseline'))

DemoResetSession ==
  /\ op' = "resetSession"
  /\ progress' = None
  /\ variant = "demo"
  /\ sessionBaseline' = None
  /\ lastDriftCheck' = now
  /\ slouchFrames' = 0
  /\ isCurrentlySlouched' = FALSE
  /\ Returns("undefined")
  /\ UNCHANGED <<variant, now, calVars, isMonitoring, detectionStrategy,
                 sessionStartTime, goodPostureFrames, stats>>

(***************************************************************************)
(* getStats() of the three classes.  The posture quality is the number of  *)
(* tenths that the text shows ("28.7%" is 287, "0%" is 0); the session     *)
(* duration is in whole minutes.  PostureMonitor.getStats also copies      *)
(* driftHistory, which no other part of the model reads.                   *)
(***************************************************************************)
postureQuality ==
  IF stats.totalFrames > 0
  THEN toFixed(DTimes100(DoubleOf(stats.goodFrames, stats.totalFrames)))
  ELSE 0

sessionDuration ==
  IF sessionStartTime = NoTime THEN 0
  ELSE (now - sessionStartTime) \div (1000 * 60)

MonitorStats ==
  [sessionDuration |-> sessionDuration,
   postureQuality |-> postureQuality,
   totalAlerts |-> stats.alerts,
   currentState |-> IF isCurrentlySlouched THEN "SLOUCHED" ELSE "GOOD"]

DemoStats ==
  [totalFrames |-> stats.totalFrames,
   slouchFrames |-> stats.slouchFrames,
   goodFrames |-> stats.goodFrames,
   alerts |-> stats.alerts,
   postureQuality |-> postureQuality,
   currentState |-> IF isCurrentlySlouched THEN "slouched" ELSE "good"]

getStats ==
  /\ op' = "getStats"
  /\ progress' = None
  /\ report' = Some(IF variant = "demo" THEN DemoStats ELSE MonitorStats)
  /\ Returns("stats")
  /\ UNCHANGED <<variant, now, calVars, monVars>>

(***************************************************************************)
(* PoseDetector.  A landmark has whole coordinates, in tenths of the       *)
(* normalised image; a landmark set is absent (no person), or gives each   *)
(* of the seven landmarks or leaves it undefined.  Midpoints are kept      *)
(* doubled, distances squared, so that no step rounds before the result is *)
(* cut to the model's units: hundredths and whole degrees.                 *)
(***************************************************************************)
LandmarkNames == {"nose", "leftShoulder", "rightShoulder", "leftHip",
                  "rightHip", "leftEar", "rightEar"}
NoPose == [landmarks |-> None, metrics |-> None]

Point(x, y, z) == [x |-> x, y |-> y, z |-> z]
Doubled(point) == Point(2 * point.x, 2 * point.y, 2 * point.z)

\* getMidpoint, doubled
getMidpoint(point1, point2) ==
  Point(point1.x + point2.x, point1.y + point2.y, point1.z + point2.z)

\* calculateDistance, squared
calculateDistance(point1, point2) ==
  LET dx == point1.x - point2.x
      dy == point1.y - point2.y
      dz == point1.z - point2.z
  IN  dx * dx + dy * dy + dz * dz

\* tan of 1 to 89 degrees, in ten-thousandths
Tangent ==
  <<175, 349, 524, 699, 875, 1051, 1228, 1405, 1584, 1763,
   1944, 2126, 2309, 2493, 2679, 2867, 3057, 3249, 3443, 3640,
   3839, 4040, 4245, 4452, 4663, 4877, 5095, 5317, 5543, 5774,
   6009, 6249, 6494, 6745, 7002, 7265, 7536, 7813, 8098, 8391,
   8693, 9004, 9325, 9657, 10000, 10355, 10724, 11106, 11504, 11918,
   12349, 12799, 13270, 13764, 14281, 14826, 15399, 16003, 16643, 17321,
   18040, 18807, 19626, 20503, 21445, 22460, 23559, 24751, 26051, 27475,
   29042, 30777, 32709, 34874, 37321, 40108, 43315, 47046, 51446, 56713,
   63138, 71154, 81443, 95144, 114301, 143007, 190811, 286363, 572900>>
\* Math.atan2(y, x) in degrees, cut to a whole degree towards zero
atan2(y, x) ==
  IF x = 0 THEN (IF y > 0 THEN 90 ELSE IF y < 0 THEN -90 ELSE 0)
  ELSE LET Below(d) == d = 0 \/ Tangent[d] * Abs(x) <= 10000 * Abs(y)
           acute == CHOOSE d \in 0..89 :
                      Below(d) /\ (d = 89 \/ ~Below(d + 1))
       IN  IF x > 0 THEN (IF y >= 0 THEN acute ELSE -acute)
           ELSE IF y >= 0 THEN 180 - acute ELSE acute - 180

\* the absolute difference of the two directions, left above 180
calculateAngleUnfolded(point1, point2, point3) ==
  Abs(atan2(point3.y - point2.y, point3.x - point2.x)
      - atan2(point1.y - point2.y, point1.x - point2.x))

calculateAngle(point1, point2, point3) ==
  LET angle == Abs(atan2(point3.y - point2.y, point3.x - point2.x)
                   - atan2(point1.y - point2.y, point1.x - point2.x))
  IN  IF angle > 180 THEN 360 - angle ELSE angle

\* the square root of n / d, in hundredths, cut: the largest h between lo
\* and hi with (h / 100)^2 <= n / d
RECURSIVE RootBetween(_, _, _, _)
RootBetween(n, d, lo, hi) ==
  IF hi - lo <= 1 THEN lo
  ELSE LET mid == (lo + hi) \div 2
       IN  IF mid * mid * d <= 10000 * n THEN RootBetween(n, d, mid, hi)
           ELSE RootBetween(n, d, lo, mid)

RootHundredths(n, d) == RootBetween(n, d, 0, 100 * (n \div d + 1))

\* a / b for two distances given by their squares: JavaScript's division
\* gives NaN for 0 / 0 and Infinity for a positive number over 0
Quotient(n, d) ==
  IF d # 0 THEN RootHundredths(n, d)
  ELSE IF n = 0 THEN "NaN" ELSE "Infinity"

\* a variant in which a missing landmark does not stop the calculation
calculatePostureMetricsLenient(landmarks) ==
  IF IsNone(landmarks) THEN None ELSE Some(GoodM)

\* calculatePostureMetrics: null without landmarks, null when reading an
\* undefined landmark throws inside the try, otherwise the record
calculatePostureMetrics(landmarks) ==
  IF IsNone(landmarks) THEN None
  ELSE IF \E name \in LandmarkNames \ {"nose"} : IsNone(Val(landmarks)[name])
  THEN None
  ELSE IF IsNone(Val(landmarks).nose) THEN None
  ELSE LET at(name) == Val(Val(landmarks)[name])
           shoulderMidpoint == getMidpoint(at("leftShoulder"),
                                           at("rightShoulder"))
           hipMidpoint == getMidpoint(at("leftHip"), at("rightHip"))
           earMidpoint == getMidpoint(at("leftEar"), at("rightEar"))
           shoulderWidth == calculateDistance(Doubled(at("leftShoulder")),
                                              Doubled(at("rightShoulder")))
           headToShoulderDistance == calculateDistance(earMidpoint,
                                                       shoulderMidpoint)
           shoulderHeightDiff == 2 * Abs(at("leftShoulder").y
                                         - at("rightShoulder").y)
       IN  Some([headShoulderRatio |->
                   Quotient(headToShoulderDistance, shoulderWidth),
                 shoulderAsymmetry |->
                   Quotient(shoulderHeightDiff * shoulderHeightDiff,
                            shoulderWidth),
                 torsoAngle |->
                   calculateAngle(shoulderMidpoint, hipMidpoint,
                                  Point(hipMidpoint.x, hipMidpoint.y + 2,
                                        hipMidpoint.z)),
                 neckAngle |->
                   calculateAngle(shoulderMidpoint, earMidpoint,
                                  Doubled(at("nose"))),
                 forwardLean |-> 5 * Abs(shoulderMidpoint.z - hipMidpoint.z),
                 shoulderWidth |-> RootHundredths(shoulderWidth, 400),
                 timestamp |-> now])

\* onPoseResults: extractLandmarks, then calculatePostureMetrics
Detect(landmarks) ==
  /\ op' = "calculatePostureMetrics"
  /\ progress' = None
  /\ pose' = [landmarks |-> landmarks,
              metrics |-> calculatePostureMetrics(landmarks)]
  /\ Returns(IF IsNone(pose'.metrics) THEN "null" ELSE "metrics")
  /\ UNCHANGED <<variant, now, calVars, monVars>>

(***************************************************************************)
(* Initial state: the objects as their constructors leave them, and        *)
(* whatever an earlier page load left in localStorage.                     *)
(***************************************************************************)
Variants == {"calibrated", "balanced", "demo"}
CompleteProfile == Profile(Some(GoodM), Some(SlouchM), Some("default"))

InitMonitor ==
  /\ isMonitoring = FALSE
  /\ detectionStrategy = "both"
  /\ sessionBaseline = None
  /\ sessionStartTime = NoTime
  /\ lastDriftCheck = NoTime
  /\ slouchFrames = 0
  /\ goodPostureFrames = 0
  /\ isCurrentlySlouched = FALSE
  /\ stats = ZeroStats

InitCalibrator ==
  /\ calibrationData = None
  /\ isCalibrating = FALSE
  /\ calibrationFrames = <<>>
  /\ currentPostureType = "undefined"

(***************************************************************************)
(* The demo page (demo-app.js) before its load event.  The markup is not   *)
(* part of the sources: every button the script enables at some point is   *)
(* taken to start disabled, the two it never touches to start enabled.     *)
(***************************************************************************)
Buttons == {"startCameraBtn", "stopCameraBtn", "calibrateGoodBtn",
            "calibrateSlouchBtn", "clearCalibrationBtn",
            "startMonitoringBtn", "stopMonitoringBtn", "resetSessionBtn"}
MarkupDisabled == Buttons \ {"startCameraBtn", "clearCalibrationBtn"}

InitPage ==
  page = [initialized |-> FALSE, isCalibrating |-> FALSE,
          isMonitoring |-> FALSE, currentStrategy |-> "both",
          cameraOn |-> FALSE, disabled |-> MarkupDisabled,
          timers |-> {}, postureStatus |-> "markup"]

\* CalibrationScreen is not on display
NoScreen == [location |-> "elsewhere"]

\* no component uses usePostureMonitor
NoHook == [mounted |-> FALSE, cleanedUp |-> FALSE]

InitObserved ==
  /\ InitPage
  /\ screen = NoScreen
  /\ hook = NoHook
  /\ pose = NoPose
  /\ report = None
  /\ op = "none"
  /\ ret = "none"
  /\ fired = <<>>
  /\ driftChecked = FALSE
  /\ progress = None
  /\ slouchRun = 0
  /\ goodRun = 0
  /\ openAlerts = 0
  /\ step = 0

\* BalancedPostureMonitor never reads its calibrator, so its sessions are
\* explored with an empty store only
Init ==
  /\ variant \in Variants
  /\ now = 0
  /\ storage \in IF variant = "balanced" THEN {Absent}
                 ELSE {Absent, Stored(CompleteProfile)}
  /\ InitCalibrator
  /\ InitMonitor
  /\ InitObserved

(***************************************************************************)
(* History of the call just made.  The runs of verdicts are counted for    *)
(* the two classes that have both thresholds; a session starts afresh at   *)
(* a successful start() and at resetSession().                             *)
(***************************************************************************)
Debounced == {"calibrated", "balanced"}

Count(seq, x) == Cardinality({i \in DOMAIN seq : seq[i] = x})

Fresh == \/ op' = "start" /\ ret' # "false"
         \/ op' = "resetSession"

Observe ==
  /\ slouchRun' =
       IF variant \notin Debounced \/ Fresh THEN 0
       ELSE IF op' = "processFrame" /\ ret' = "slouching" THEN slouchRun + 1
       ELSE IF op' = "processFrame" /\ ret' = "notSlouching" THEN 0
       ELSE slouchRun
  /\ goodRun' =
       IF variant \notin Debounced \/ Fresh THEN 0
       ELSE IF op' = "processFrame" /\ ret' = "notSlouching" THEN goodRun + 1
       ELSE IF op' = "processFrame" /\ ret' = "slouching" THEN 0
       ELSE goodRun
  /\ openAlerts' =
       IF Fresh THEN 0
       ELSE openAlerts + Count(fired', "onSlouchDetected")
                       - Count(fired', "onPostureCorrected")

\* the clock advances by one drift-check interval at a time
Tick ==
  /\ now < MaxTicks * driftCheckInterval
  /\ now' = now + driftCheckInterval
  /\ op' = "tick"
  /\ progress' = None
  /\ Returns("none")
  /\ UNCHANGED <<variant, calVars, monVars>>

\* the counters stay within the bounds of the model
FrameWithinBounds ==
  /\ slouchFrames' <= requiredSlouchFrames + ExtraSlouchFrames
  /\ stats'.slouchFrames <= requiredSlouchFrames + ExtraSlouchFrames
  /\ stats'.goodFrames <= requiredGoodFrames + ExtraGoodFrames
  /\ stats'.totalFrames - stats'.slouchFrames - stats'.goodFrames
       <= MaxUncounted

\* the page loads the stored profile while it has none in memory
LoadStored ==
  /\ variant # "balanced"
  /\ IsNone(calibrationData)
  /\ loadCalibration("default")

Start == CalStart \/ BalStart \/ \E strategy \in Strategies : DemoStart(strategy)

Stop == CalStop \/ BalStop \/ DemoStop

ResetSession == CalResetSession \/ BalResetSession \/ DemoResetSession

ProcessFrame(metrics) ==
  \/ CalProcessFrame(metrics)
  \/ BalProcessFrame(metrics)
  \/ DemoProcessFrame(metrics)

Frame == \E metrics \in Frames : ProcessFrame(metrics) /\ FrameWithinBounds

(***************************************************************************)
(* Spec: one monitor of any of the three classes through sessions of       *)
(* start, frames, resetSession and stop, all within one drift-check        *)
(* interval.                                                               *)
(***************************************************************************)
Next ==
  /\ \/ LoadStored
     \/ Start
     \/ Stop
     \/ ResetSession
     \/ Frame
  /\ Observe
  /\ UNCHANGED <<step, page, pose, report, screen, hook>>

Spec == Init /\ [][Next]_vars

(***************************************************************************)
(* SpecClock: the same sessions with the clock running, over frame streams *)
(* with at most MaxClockGoodFrames good verdicts.                          *)
(***************************************************************************)
ClockFrame ==
  \E metrics \in Frames :
    /\ ProcessFrame(metrics)
    /\ FrameWithinBounds
    /\ stats'.goodFrames <= MaxClockGoodFrames

NextClock ==
  /\ \/ LoadStored
     \/ Start
     \/ Stop
     \/ ResetSession
     \/ ClockFrame
     \/ Tick
  /\ Observe
  /\ UNCHANGED <<step, page, pose, report, screen, hook>>

SpecClock == Init /\ [][NextClock]_vars

(***************************************************************************)
(* SpecCalibration: a CalibratedPostureMonitor and its calibrator, with    *)
(* the calibrator written to at any time (guided collection holding the    *)
(* requested pose, load, clear) around short monitoring sessions within    *)
(* one drift-check interval.                                               *)
(***************************************************************************)
InitCalibration ==
  /\ variant = "calibrated"
  /\ now = 0
  /\ storage \in {Absent, Stored(CompleteProfile)}
  /\ InitCalibrator
  /\ InitMonitor
  /\ InitObserved

PoseFrame == IF currentPostureType = "good" THEN GoodM ELSE SlouchM

Collect ==
  \E metrics \in {None, Some(PoseFrame)} : addCalibrationFrame(metrics)

ShortFrame ==
  \E metrics \in Frames :
    /\ CalProcessFrame(metrics)
    /\ stats'.totalFrames <= MaxCalibrationSessionFrames

NextCalibration ==
  /\ \/ \E postureType \in PostureTypes : startCalibration(postureType)
     \/ Collect
     \/ loadCalibration("default")
     \/ clearCalibration
     \/ CalStart
     \/ CalStop
     \/ CalResetSession
     \/ ShortFrame
  /\ Observe
  /\ UNCHANGED <<step, page, pose, report, screen, hook>>

SpecCalibration == InitCalibration /\ [][NextCalibration]_vars

(***************************************************************************)
(* SpecScenario: the end-to-end run.  Good posture is calibrated with 60   *)
(* frames GoodM, slouched posture with 60 frames SlouchM, monitoring is    *)
(* started, 150 frames SlouchM are fed and then 10 frames GoodM.           *)
(***************************************************************************)
SlouchedFramesFed == 150
GoodFramesFed == 10
CalibrationDone == 2 * (requiredFrames + 1)
ScenarioEnd == CalibrationDone + 1 + SlouchedFramesFed + GoodFramesFed

InitScenario ==
  /\ variant = "calibrated"
  /\ now = 0
  /\ storage = Absent
  /\ InitCalibrator
  /\ InitMonitor
  /\ InitObserved

ScenarioCall ==
  IF step = 0 THEN startCalibration("good")
  ELSE IF step <= requiredFrames THEN addCalibrationFrame(Some(GoodM))
  ELSE IF step = requiredFrames + 1 THEN startCalibration("slouched")
  ELSE IF step < CalibrationDone THEN addCalibrationFrame(Some(SlouchM))
  ELSE IF step = CalibrationDone THEN CalStart
  ELSE IF step <= CalibrationDone + SlouchedFramesFed
       THEN CalProcessFrame(Some(SlouchM))
  ELSE CalProcessFrame(Some(GoodM))

NextScenario ==
  /\ step < ScenarioEnd
  /\ ScenarioCall
  /\ Observe
  /\ step' = step + 1
  /\ UNCHANGED <<page, pose, report, screen, hook>>

SpecScenario == InitScenario /\ [][NextScenario]_vars

\* the number of frames processFrame has been given in the scenario
FramesFed == IF step > CalibrationDone THEN step - CalibrationDone - 1 ELSE 0

(***************************************************************************)
(* The demo page (demo-app.js): its handlers, each with the calls it makes *)
(* on the calibrator and on the PostureMonitor.  A click reaches a handler *)
(* only while its button is enabled; the half-second timer that            *)
(* finishCalibration sets is pending until FinishTimer runs it.            *)
(***************************************************************************)
Enabled(button) == page.initialized /\ button \notin page.disabled

Idle(name) ==
  /\ op' = name
  /\ progress' = None
  /\ Returns("undefined")
  /\ UNCHANGED <<variant, now, calVars, monVars>>

\* init(): load the stored calibration, then attach the listeners
PageInit ==
  /\ ~page.initialized
  /\ loadCalibration("default")
  /\ page' = [page EXCEPT
       !.initialized = TRUE,
       !.disabled = IF ret' = "true" THEN @ \ {"startMonitoringBtn"} ELSE @]

\* startCamera(): poseDetector.initialize may fail
StartCameraClick(success) ==
  /\ Enabled("startCameraBtn")
  /\ Idle("startCamera")
  /\ page' = IF success
             THEN [page EXCEPT
                     !.cameraOn = TRUE,
                     !.disabled = (@ \cup {"startCameraBtn"})
                                    \ {"stopCameraBtn", "calibrateGoodBtn"}]
             ELSE page

PageStopped ==
  [page EXCEPT
     !.isMonitoring = FALSE,
     !.postureStatus = "STOPPED",
     !.disabled = (@ \cup {"stopMonitoringBtn", "resetSessionBtn"})
                    \ {"startMonitoringBtn"}]

\* stopMonitoring()
StopMonitoringClick ==
  /\ Enabled("stopMonitoringBtn")
  /\ DemoStop
  /\ page' = PageStopped

\* stopCamera(), which stops the monitoring if it is on
StopCameraClick ==
  /\ Enabled("stopCameraBtn")
  /\ LET off == [page EXCEPT
                   !.cameraOn = FALSE,
                   !.disabled = (@ \cup {"stopCameraBtn", "calibrateGoodBtn",
                                         "calibrateSlouchBtn"})
                                  \ {"startCameraBtn"}]
     IN  IF page.isMonitoring
         THEN /\ DemoStop
              /\ page' = [off EXCEPT
                   !.isMonitoring = FALSE,
                   !.postureStatus = "STOPPED",
                   !.disabled = (@ \cup {"stopMonitoringBtn",
                                         "resetSessionBtn"})
                                  \ {"startMonitoringBtn"}]
         ELSE /\ Idle("stopCamera")
              /\ page' = off

CalibrateButton(type) ==
  IF type = "good" THEN "calibrateGoodBtn" ELSE "calibrateSlouchBtn"

\* startCalibration(type)
CalibrateClick(type) ==
  /\ Enabled(CalibrateButton(type))
  /\ startCalibration(type)
  /\ page' = [page EXCEPT
       !.isCalibrating = TRUE,
       !.disabled = @ \cup {"calibrateGoodBtn", "calibrateSlouchBtn"}]

\* clearCalibration(), once the user has confirmed
ClearClick(confirmed) ==
  /\ Enabled("clearCalibrationBtn")
  /\ IF confirmed
     THEN /\ clearCalibration
          /\ page' = [page EXCEPT
               !.disabled = @ \cup {"startMonitoringBtn",
                                    "calibrateSlouchBtn"}]
     ELSE /\ Idle("clearCalibrationDeclined")
          /\ UNCHANGED page

\* startMonitoring()
StartMonitoringClick ==
  /\ Enabled("startMonitoringBtn")
  /\ IF ~hasCalibration
     THEN /\ Idle("startMonitoringRefused")
          /\ UNCHANGED page
     ELSE /\ DemoStart(page.currentStrategy)
          /\ page' = [page EXCEPT
               !.isMonitoring = TRUE,
               !.postureStatus = "MONITORING",
               !.disabled = (@ \cup {"startMonitoringBtn"})
                              \ {"stopMonitoringBtn", "resetSessionBtn"}]

\* resetSession()
ResetSessionClick ==
  /\ Enabled("resetSessionBtn")
  /\ DemoResetSession
  /\ UNCHANGED page

\* a strategy radio changes: monitor.stop(); monitor.start(strategy)
StrategyChange(strategy) ==
  /\ page.initialized
  /\ strategy # page.currentStrategy
  /\ page' = [page EXCEPT !.currentStrategy = strategy]
  /\ IF page.isMonitoring THEN DemoStart(strategy)
     ELSE Idle("strategyChange")

\* the monitor's callbacks as init() registers them
StatusAfter(callbacks, status) ==
  IF callbacks = <<"onSlouchDetected">> THEN "SLOUCHING"
  ELSE IF callbacks = <<"onPostureCorrected">> THEN "GOOD"
  ELSE status

\* onPoseResults(results): no metrics, or metrics given to the calibrator
\* while the page is calibrating and to the monitor while it is monitoring
PoseResults(metrics) ==
  /\ page.initialized
  /\ page.cameraOn
  /\ op' = "onPoseResults"
  /\ IF IsNone(metrics)
     THEN /\ progress' = None
          /\ Returns("undefined")
          /\ UNCHANGED <<calVars, monVars, page>>
     ELSE /\ IF page.isCalibrating
             THEN /\ addCalibrationFrameCore(metrics)
                  /\ UNCHANGED <<storage, currentPostureType>>
             ELSE /\ progress' = None
                  /\ UNCHANGED calVars
          /\ IF page.isMonitoring
             THEN DemoProcessFrameCore(metrics)
             ELSE /\ Returns("undefined")
                  /\ UNCHANGED monVars
          /\ page' =
               LET finished == /\ ~IsNone(progress')
                               /\ FracGe(Val(progress'), 100)
               IN  [page EXCEPT
                      !.isCalibrating = IF finished THEN FALSE ELSE @,
                      !.timers = IF finished
                                 THEN @ \cup {currentPostureType} ELSE @,
                      !.postureStatus = StatusAfter(fired', @)]
  /\ UNCHANGED <<variant, now>>

\* extractLandmarks(results): null when results.poseLandmarks is missing or
\* empty, otherwise the seven named landmarks (the list is kept as the
\* record of the entries that extractLandmarks picks from it)
extractLandmarks(results) ==
  IF IsNone(results.poseLandmarks) THEN None
  ELSE IF Val(results.poseLandmarks) = <<>> THEN None
  ELSE Some(Val(results.poseLandmarks)[1])

\* onPoseResults(results), from the detector's result to the consumers
onPoseResults(results) ==
  LET landmarks == extractLandmarks(results)
      metrics == IF IsNone(landmarks) THEN None
                 ELSE calculatePostureMetrics(landmarks)
  IN  /\ pose' = [landmarks |-> landmarks, metrics |-> metrics]
      /\ PoseResults(metrics)

\* the timer of finishCalibration, set for the pose kind just calibrated
FinishTimer(calibrationType) ==
  /\ calibrationType \in page.timers
  /\ IF calibrationType = "good"
     THEN /\ Idle("finishCalibration")
          /\ page' = [page EXCEPT
               !.timers = @ \ {calibrationType},
               !.disabled = @ \ {"calibrateGoodBtn", "calibrateSlouchBtn"}]
     ELSE /\ \E quotaExceeded \in BOOLEAN :
               saveCalibration("default", quotaExceeded)
          /\ page' = [page EXCEPT
               !.timers = @ \ {calibrationType},
               !.disabled = @ \ {"calibrateGoodBtn", "calibrateSlouchBtn",
                                 "startMonitoringBtn"}]

\* The user holds the requested pose while the page is calibrating and
\* clicks nothing until the sixty frames are in; a calibration run starts
\* while the monitor has no frame of a session behind it.  Outside
\* calibration a session sees MaxPageSessionFrames frames.
MonitorUntouched ==
  /\ stats = ZeroStats
  /\ slouchFrames = 0
  /\ ~isCurrentlySlouched
  /\ IsNone(sessionBaseline)

PageFrames ==
  IF page.isCalibrating THEN {Some(PoseFrame)} ELSE Frames

PageFrame ==
  \E metrics \in PageFrames :
    /\ PoseResults(metrics)
    /\ \/ page.isCalibrating
       \/ /\ stats'.totalFrames <= MaxPageSessionFrames
          /\ slouchFrames' <= MaxPageSessionFrames

Click ==
  /\ ~page.isCalibrating
  /\ \/ \E success \in BOOLEAN : StartCameraClick(success)
     \/ StopCameraClick
     \/ /\ MonitorUntouched
        /\ \E type \in PostureTypes : CalibrateClick(type)
     \/ \E confirmed \in BOOLEAN : ClearClick(confirmed)
     \/ StartMonitoringClick
     \/ StopMonitoringClick
     \/ ResetSessionClick
     \/ \E strategy \in Strategies : StrategyChange(strategy)

InitDemo ==
  /\ variant = "demo"
  /\ now = 0
  /\ storage \in {Absent, Stored(CompleteProfile)}
  /\ InitCalibrator
  /\ InitMonitor
  /\ InitObserved

NextDemo ==
  /\ \/ PageInit
     \/ Click
     \/ PageFrame
     \/ \E calibrationType \in PostureTypes : FinishTimer(calibrationType)
  /\ Observe
  /\ UNCHANGED <<step, pose, report, screen, hook>>

SpecDemo == InitDemo /\ [][NextDemo]_vars

(***************************************************************************)
(* SpecAveraging: each pose kind calibrated once, from sixty frames with   *)
(* the same metrics, the features being doubles.                           *)
(***************************************************************************)
\* a pose whose ratios are binary fractions
DyadicM ==
  [headShoulderRatio |-> 25, shoulderAsymmetry |-> 0, torsoAngle |-> 5,
   neckAngle |-> 20, forwardLean |-> 50]

MeasuredFrames == {Measured(m) : m \in {GoodM, SlouchM, HunchM, DyadicM}}

InitAveraging ==
  /\ variant = "calibrated"
  /\ now = 0
  /\ storage = Absent
  /\ InitCalibrator
  /\ InitMonitor
  /\ InitObserved

StartOnce ==
  \E postureType \in PostureTypes :
    /\ ~isCalibrating
    /\ IF IsNone(calibrationData) THEN TRUE
       ELSE IsNone(Val(calibrationData)[postureType \o "Posture"])
    /\ startCalibration(postureType)

SameFrame ==
  \E metrics \in MeasuredFrames :
    /\ isCalibrating
    /\ IF calibrationFrames = <<>> THEN TRUE
       ELSE metrics = calibrationFrames[1]
    /\ addCalibrationFrameDouble(Some(metrics))

NextAveraging ==
  /\ \/ StartOnce
     \/ SameFrame
  /\ Observe
  /\ UNCHANGED <<step, page, pose, report, screen, hook>>

SpecAveraging == InitAveraging /\ [][NextAveraging]_vars

(***************************************************************************)
(* SpecStore: the calibrator on its own, with two users sharing the        *)
(* browser's localStorage.                                                 *)
(***************************************************************************)
UserIds == {"default", "alice"}

InitStore ==
  /\ variant = "calibrated"
  /\ now = 0
  /\ storage \in {Absent, Corrupt}
                   \cup {Stored([CompleteProfile EXCEPT !.userId = Some(u)]) :
                           u \in UserIds}
  /\ InitCalibrator
  /\ InitMonitor
  /\ InitObserved

NextStore ==
  /\ \/ \E postureType \in PostureTypes : startCalibration(postureType)
     \/ Collect
     \/ \E userId \in UserIds : loadCalibration(userId)
     \/ \E userId \in UserIds, quotaExceeded \in BOOLEAN :
          saveCalibration(userId, quotaExceeded)
     \/ clearCalibration
  /\ Observe
  /\ UNCHANGED <<step, page, pose, report, screen, hook>>

SpecStore == InitStore /\ [][NextStore]_vars

(***************************************************************************)
(* SpecRecalibration: checkIfRecalibrationNeeded against good-posture      *)
(* baselines whose features are zero or not, on samples of the same kind   *)
(* and on a full metrics record.                                           *)
(***************************************************************************)
SampleMetrics ==
  [headShoulderRatio : {0, 30}, shoulderAsymmetry : {0, 2},
   torsoAngle : {0, 5}, neckAngle : {20, 22}, forwardLean : {0, 10}]

\* a record as calculatePostureMetrics returns it, shoulderWidth included
FullRecord(metrics) ==
  [key \in DOMAIN metrics \cup {"shoulderWidth"} |->
     IF key \in DOMAIN metrics THEN metrics[key] ELSE 40]

InitRecalibration ==
  /\ variant = "calibrated"
  /\ now = 0
  /\ storage \in {Absent}
                   \cup {Stored(Profile(Some(good), Some(SlouchM),
                                        Some("default"))) :
                           good \in SampleMetrics}
  /\ InitCalibrator
  /\ InitMonitor
  /\ InitObserved

NextRecalibration ==
  /\ \/ loadCalibration("default")
     \/ \E sample \in SampleMetrics \cup {FullRecord(GoodM)} :
          checkIfRecalibrationNeeded(sample)
     \/ clearCalibration
  /\ Observe
  /\ UNCHANGED <<step, page, pose, report, screen, hook>>

SpecRecalibration == InitRecalibration /\ [][NextRecalibration]_vars

(***************************************************************************)
(* SpecMetrics: the detector on a seated person whose shoulders take every *)
(* pair of nearby positions, on an empty frame, and on a landmark list     *)
(* that is cut short.                                                      *)
(***************************************************************************)
ShoulderPoints == {Point(x, y, z) : x \in {3, 4, 6}, y \in {4, 5}, z \in {0, 1}}

Seated(leftShoulder, rightShoulder) ==
  [nose |-> Some(Point(4, 2, 0)),
   leftShoulder |-> Some(leftShoulder),
   rightShoulder |-> Some(rightShoulder),
   leftHip |-> Some(Point(6, 9, 0)),
   rightHip |-> Some(Point(3, 9, 0)),
   leftEar |-> Some(Point(5, 2, 1)),
   rightEar |-> Some(Point(3, 2, 1))]

LandmarkSets ==
  {None}
    \cup {Some(Seated(l, r)) : l \in ShoulderPoints, r \in ShoulderPoints}
    \cup {Some([Seated(l, l) EXCEPT !.leftHip = None]) : l \in ShoulderPoints}

InitMetrics ==
  /\ variant = "demo"
  /\ now = 0
  /\ storage = Absent
  /\ InitCalibrator
  /\ InitMonitor
  /\ InitObserved

NextMetrics ==
  /\ \E landmarks \in LandmarkSets : Detect(landmarks)
  /\ Observe
  /\ UNCHANGED <<step, page, report, screen, hook>>

SpecMetrics == InitMetrics /\ [][NextMetrics]_vars

(***************************************************************************)
(* The demo page fed by the detector: each result holds no landmarks, an   *)
(* empty list, the landmarks of a seated person, or that person with one   *)
(* landmark missing.                                                       *)
(***************************************************************************)
SeatedPerson == Seated(Point(6, 4, 0), Point(3, 4, 0))

DetectorResults ==
  {[poseLandmarks |-> None], [poseLandmarks |-> Some(<<>>)]}
    \cup {[poseLandmarks |-> Some(<<landmarks>>)] :
            landmarks \in {SeatedPerson,
                           [SeatedPerson EXCEPT !.leftHip = None],
                           [SeatedPerson EXCEPT !.nose = None]}}

DetectorFrame ==
  \E results \in DetectorResults :
    /\ onPoseResults(results)
    /\ \/ page.isCalibrating
       \/ /\ stats'.totalFrames <= MaxPageSessionFrames
          /\ slouchFrames' <= MaxPageSessionFrames

DetectorClick ==
  /\ ~page.isCalibrating
  /\ \/ StartCameraClick(TRUE)
     \/ /\ MonitorUntouched
        /\ \E type \in PostureTypes : CalibrateClick(type)
     \/ StartMonitoringClick
     \/ StopMonitoringClick
  /\ UNCHANGED pose

NextDetector ==
  /\ \/ PageInit /\ UNCHANGED pose
     \/ DetectorClick
     \/ DetectorFrame
     \/ /\ \E calibrationType \in PostureTypes : FinishTimer(calibrationType)
        /\ UNCHANGED pose
  /\ Observe
  /\ UNCHANGED <<step, report, screen, hook>>

SpecDetector == InitDemo /\ [][NextDetector]_vars

(***************************************************************************)
(* SpecStats: one session of CalibratedPostureMonitor or of                *)
(* BalancedPostureMonitor, its good frames before its slouching frames,    *)
(* MaxStatsFrames frames at most, and getStats() at any point.  report     *)
(* holds the result while getStats is the last call made.                  *)
(***************************************************************************)
InitStats ==
  /\ variant \in Debounced
  /\ now = 0
  /\ storage = IF variant = "balanced" THEN Absent
               ELSE Stored(CompleteProfile)
  /\ InitCalibrator
  /\ InitMonitor
  /\ InitObserved

StatsFrame ==
  \E metrics \in Metrics :
    /\ metrics = GoodM => stats.slouchFrames = 0
    /\ CalProcessFrame(Some(metrics)) \/ BalProcessFrame(Some(metrics))
    /\ stats'.totalFrames <= MaxStatsFrames

NextStats ==
  /\ \/ /\ \/ LoadStored
           \/ ~isMonitoring /\ (CalStart \/ BalStart)
           \/ StatsFrame
        /\ report' = None
     \/ getStats
  /\ Observe
  /\ UNCHANGED <<step, page, pose, screen, hook>>

SpecStats == InitStats /\ [][NextStats]_vars

(***************************************************************************)
(* SpecAnalysis: analyzePostureVsCalibration on metrics around the stored  *)
(* goodPosture baseline: each feature within its tolerance and beyond it,  *)
(* the sums clear of the thresholds 35, 40 and 60 on either side.          *)
(***************************************************************************)
AnalysisMetrics ==
  [headShoulderRatio : {30, 35, 40, 43, 45},
   shoulderAsymmetry : {2, 4, 8},
   torsoAngle : {5, 23, 24, 35},
   neckAngle : {20, 41},
   forwardLean : {10, 15}]

InitAnalysis ==
  /\ variant = "calibrated"
  /\ now = 0
  /\ storage = Stored(CompleteProfile)
  /\ InitCalibrator
  /\ InitMonitor
  /\ InitObserved

NextAnalysis ==
  /\ \/ LoadStored /\ UNCHANGED <<pose, report>>
     \/ \E currentMetrics \in AnalysisMetrics : Analyze(currentMetrics)
  /\ Observe
  /\ UNCHANGED <<step, page, screen, hook>>

SpecAnalysis == InitAnalysis /\ [][NextAnalysis]_vars

(***************************************************************************)
(* SpecVerdict: sessions of PostureMonitor under each strategy, over       *)
(* frames that are upright, hunched (two ratio indicators) or with the     *)
(* head moved forward (one indicator: a drift from an upright baseline,    *)
(* not a ratio verdict), MaxVerdictFrames frames a session and as many     *)
(* consecutive slouching frames across sessions.                           *)
(***************************************************************************)
HeadForwardM == [GoodM EXCEPT !.headShoulderRatio = 37]

VerdictFrames == {None} \cup {Some(m) : m \in {GoodM, HunchM, HeadForwardM}}

InitVerdict ==
  /\ variant = "demo"
  /\ now = 0
  /\ storage = Stored(CompleteProfile)
  /\ InitCalibrator
  /\ InitMonitor
  /\ InitObserved

VerdictFrame ==
  \E metrics \in VerdictFrames :
    /\ DemoFrameResult(metrics)
    /\ stats'.totalFrames <= MaxVerdictFrames
    /\ slouchFrames' <= MaxVerdictFrames

NextVerdict ==
  /\ \/ /\ \/ LoadStored
           \/ \E strategy \in Strategies : DemoStart(strategy)
           \/ DemoStop
        /\ UNCHANGED <<pose, report>>
     \/ VerdictFrame
  /\ Observe
  /\ UNCHANGED <<step, page, screen, hook>>

SpecVerdict == InitVerdict /\ [][NextVerdict]_vars

(***************************************************************************)
(* CalibrationScreen (part_003 40-380): its React state (step, progress,   *)
(* poseOk, scriptsOk), its refs (calibrator, detector), its timers and     *)
(* the route.  progress and the simulation's p are in tenths.  The module  *)
(* that mounts the application is not among the sources: under React 18's  *)
(* createRoot the state updates made in one timer callback are batched     *)
(* into one render (batched), under the legacy render() each of them       *)
(* renders at once and the pending effect of a render runs before the next *)
(* update is processed.                                                    *)
(***************************************************************************)
MountedScreen(batched) ==
  [location |-> "calibration", batched |-> batched,
   step |-> "loading", progress |-> 0, poseOk |-> FALSE,
   scripts |-> "loading", hasCalibrator |-> FALSE, detector |-> "none",
   interval |-> FALSE, p |-> 0, navigateTimer |-> FALSE,
   postureCalibrated |-> FALSE]

OnScreen == screen.location = "calibration"

scriptsOk == screen.scripts \in {"loaded", "loadedWithoutClasses"}

\* the route changes to the calibration screen and the component mounts
Mount(batched) ==
  /\ screen = NoScreen
  /\ Idle("mount")
  /\ screen' = MountedScreen(batched)

\* effect 1: the MediaPipe scripts load or one of them fails (catch); a
\* backend script that fails to load resolves silently
LoadScripts(outcome) ==
  /\ OnScreen
  /\ screen.scripts = "loading"
  /\ Idle("loadScripts")
  /\ screen' = IF outcome = "failed"
               THEN [screen EXCEPT !.scripts = "failed", !.step = "align"]
               ELSE [screen EXCEPT !.scripts = outcome,
                                   !.detector = "timer"]

\* initDetector, 800 ms after scriptsOk: without the classes the screen
\* goes to align with no calibrator; with them the calibrator is created
\* and the detector starts, or fails to
initDetector(outcome) ==
  /\ OnScreen
  /\ screen.detector = "timer"
  /\ Idle("initDetector")
  /\ screen' =
       IF outcome = "noVideo" THEN [screen EXCEPT !.detector = "none"]
       ELSE IF screen.scripts = "loadedWithoutClasses"
       THEN [screen EXCEPT !.detector = "none", !.step = "align"]
       ELSE IF outcome = "started"
       THEN [screen EXCEPT !.detector = "running", !.hasCalibrator = TRUE,
                           !.step = "align"]
       ELSE [screen EXCEPT !.detector = "none", !.hasCalibrator = TRUE,
                           !.step = "error"]

\* the detector's callback
ScreenPoseResults(results) ==
  /\ OnScreen
  /\ screen.detector = "running"
  /\ op' = "screenPoseResults"
  /\ LET landmarks == extractLandmarks(results)
         metrics == IF IsNone(landmarks) THEN None
                    ELSE calculatePostureMetrics(landmarks)
     IN  /\ pose' = [landmarks |-> landmarks, metrics |-> metrics]
         /\ IF ~IsNone(landmarks) /\ isCalibrating
            THEN addCalibrationFrameCore(metrics)
            ELSE /\ progress' = None
                 /\ UNCHANGED <<calibrationData, isCalibrating,
                                calibrationFrames>>
         /\ screen' = [screen EXCEPT
              !.poseOk = ~IsNone(landmarks),
              !.progress = IF IsNone(progress') THEN @
                           ELSE (10 * Val(progress').n) \div Val(progress').d]
  /\ Returns("undefined")
  /\ UNCHANGED <<variant, now, storage, currentPostureType, monVars>>

canProceed == screen.step = "align" /\ (screen.poseOk \/ ~scriptsOk)

\* startGoodPosture, the button's handler in step align
startGoodPosture ==
  /\ OnScreen
  /\ canProceed
  /\ IF screen.hasCalibrator
     THEN /\ startCalibration("good")
          /\ screen' = [screen EXCEPT !.progress = 0, !.step = "good"]
     ELSE /\ Idle("startGoodPosture")
          /\ screen' = [screen EXCEPT !.progress = 0, !.step = "good",
                                      !.interval = TRUE, !.p = 0]

\* the progress watcher effect on a screen without calibrator
Watched(s) ==
  IF s.progress < 1000 THEN s
  ELSE IF s.step = "good" THEN [s EXCEPT !.progress = 0, !.step = "bad"]
  ELSE IF s.step = "bad"
  THEN [s EXCEPT !.step = "success", !.postureCalibrated = TRUE,
                 !.navigateTimer = TRUE]
  ELSE s

\* the last tick of simulateProgress: setProgress(p); clearInterval;
\* setProgress(100); onDone(), which is setProgress(0); setStep("bad")
LastTick(s, p) ==
  IF s.batched
  THEN [s EXCEPT !.p = p, !.interval = FALSE, !.progress = 0,
                 !.step = "bad"]
  ELSE LET first == Watched([s EXCEPT !.p = p, !.interval = FALSE,
                                      !.progress = p])
           second == Watched([first EXCEPT !.progress = 1000])
           third == Watched([second EXCEPT !.progress = 0])
       IN  Watched([third EXCEPT !.step = "bad"])

\* a tick of simulateProgress's interval (40 ms): p += 1.7
SimulationTick ==
  /\ OnScreen
  /\ screen.interval
  /\ Idle("simulateProgress")
  /\ LET p == screen.p + 17
     IN  screen' = IF p >= 1000 THEN LastTick(screen, p)
                   ELSE [screen EXCEPT !.p = p, !.progress = p]

\* the progress watcher effect, after a render with progress at 100
ProgressWatcher ==
  /\ OnScreen
  /\ screen.progress >= 1000
  /\ screen.step \in {"good", "bad"}
  /\ screen' = Watched(screen)
  /\ IF ~screen.hasCalibrator THEN Idle("progressWatcher")
     ELSE IF screen.step = "good" THEN startCalibration("slouched")
     ELSE \E quotaExceeded \in BOOLEAN :
            saveCalibration("default", quotaExceeded)

\* navigate("/sanctuary")
navigate ==
  /\ Idle("navigate")
  /\ screen' = [location |-> "sanctuary",
                postureCalibrated |-> screen.postureCalibrated]

\* the timer set on success, 1800 ms later
NavigateTimer ==
  /\ OnScreen
  /\ screen.navigateTimer
  /\ navigate

\* the skip link of steps align and error
SkipCalibration ==
  /\ OnScreen
  /\ screen.step \in {"align", "error"}
  /\ navigate

(***************************************************************************)
(* SpecScreen: one visit of the calibration screen.  The user holds the    *)
(* pose asked for; timers and effects that are due do run.                 *)
(***************************************************************************)
ScreenResults ==
  {[poseLandmarks |-> None], [poseLandmarks |-> Some(<<SeatedPerson>>)]}

ScreenEvent ==
  \/ \E batched \in BOOLEAN : Mount(batched) /\ UNCHANGED pose
  \/ /\ \E outcome \in {"failed", "loaded", "loadedWithoutClasses"} :
          LoadScripts(outcome)
     /\ UNCHANGED pose
  \/ /\ \E outcome \in {"noVideo", "started", "cameraFailed"} :
          initDetector(outcome)
     /\ UNCHANGED pose
  \/ \E results \in ScreenResults : ScreenPoseResults(results)
  \/ startGoodPosture /\ UNCHANGED pose

ScreenStep(event) ==
  /\ event
  /\ Observe
  /\ UNCHANGED <<step, page, report, hook>>

NextScreen ==
  \/ ScreenStep(ScreenEvent)
  \/ ScreenStep(SimulationTick /\ UNCHANGED pose)
  \/ ScreenStep(ProgressWatcher /\ UNCHANGED pose)
  \/ ScreenStep(NavigateTimer /\ UNCHANGED pose)
  \/ ScreenStep(SkipCalibration /\ UNCHANGED pose)

SpecScreen ==
  /\ InitDemo
  /\ [][NextScreen]_vars
  /\ WF_vars(ScreenStep(SimulationTick /\ UNCHANGED pose))
  /\ WF_vars(ScreenStep(ProgressWatcher /\ UNCHANGED pose))
  /\ WF_vars(ScreenStep(NavigateTimer /\ UNCHANGED pose))

(***************************************************************************)
(* SpecRestart: a calibrator on its own.  startCalibration is called at    *)
(* any time, also in the middle of a collection; the user holds the pose   *)
(* asked for by the latest call.  step counts the frames pushed so far.    *)
(***************************************************************************)
InitRestart ==
  /\ variant = "calibrated"
  /\ now = 0
  /\ storage = Absent
  /\ InitCalibrator
  /\ InitMonitor
  /\ InitObserved

RestartFrame ==
  /\ isCalibrating
  /\ step < MaxRestartFrames
  /\ addCalibrationFrame(Some(PoseFrame))
  /\ step' = step + 1

NextRestart ==
  /\ \/ /\ \E postureType \in PostureTypes : startCalibration(postureType)
        /\ UNCHANGED step
     \/ RestartFrame
  /\ Observe
  /\ UNCHANGED <<page, pose, report, screen, hook>>

SpecRestart == InitRestart /\ [][NextRestart]_vars

(***************************************************************************)
(* SpecBaseline: the monitors that keep a session baseline, through        *)
(* sessions of start, frames, resetSession and stop; pose keeps the        *)
(* metrics of the frame passed.  At most MaxBaselineFrames frames are      *)
(* counted and as many consecutive slouching ones.                         *)
(***************************************************************************)
InitBaseline ==
  /\ variant \in {"balanced", "demo"}
  /\ now = 0
  /\ storage = Absent
  /\ InitCalibrator
  /\ InitMonitor
  /\ InitObserved

BaselineFrame ==
  \E metrics \in Frames \cup {Some(SlouchM)} :
    /\ BalProcessFrame(metrics) \/ DemoProcessFrame(metrics)
    /\ pose' = [landmarks |-> None, metrics |-> metrics]
    /\ stats'.totalFrames <= MaxBaselineFrames
    /\ slouchFrames' <= MaxBaselineFrames

NextBaseline ==
  /\ \/ /\ \/ BalStart
           \/ \E strategy \in Strategies : DemoStart(strategy)
           \/ BalStop
           \/ DemoStop
           \/ BalResetSession
           \/ DemoResetSession
        /\ UNCHANGED pose
     \/ BaselineFrame
  /\ Observe
  /\ UNCHANGED <<step, page, report, screen, hook>>

SpecBaseline == InitBaseline /\ [][NextBaseline]_vars

(***************************************************************************)
(* SpecIndependence: analyzePostureVsCalibration around a recalibration of *)
(* the slouched posture: the stored profile is loaded, the slouched        *)
(* baseline (SlouchM in the profile) is collected again with the user in   *)
(* the pose HunchM, and metrics are analyzed before, during and after.     *)
(* The goodPosture baseline stays GoodM throughout.                        *)
(***************************************************************************)
BentM == [GoodM EXCEPT !.torsoAngle = 27]

IndependenceMetrics == {GoodM, BentM, SlouchM, HunchM}

InitIndependence ==
  /\ variant = "calibrated"
  /\ now = 0
  /\ storage = Stored(CompleteProfile)
  /\ InitCalibrator
  /\ InitMonitor
  /\ InitObserved

Reslouch ==
  \/ startCalibration("slouched")
  \/ isCalibrating /\ addCalibrationFrame(Some(HunchM))

NextIndependence ==
  /\ \/ LoadStored /\ UNCHANGED <<pose, report>>
     \/ /\ hasCalibration
        /\ Reslouch
        /\ UNCHANGED <<pose, report>>
     \/ \E currentMetrics \in IndependenceMetrics : Analyze(currentMetrics)
  /\ Observe
  /\ UNCHANGED <<step, page, screen, hook>>

SpecIndependence == InitIndependence /\ [][NextIndependence]_vars

(***************************************************************************)
(* SpecDisplay: the demo page with a stored calibration, through           *)
(* monitoring sessions long enough for the alert: the camera is started,   *)
(* monitoring is started, stopped and reset, the strategy is changed, and  *)
(* frames arrive, a streak of at most requiredSlouchFrames +               *)
(* ExtraSlouchFrames slouching ones and ExtraGoodFrames good ones a        *)
(* session.                                                                *)
(***************************************************************************)
InitDisplay ==
  /\ variant = "demo"
  /\ now = 0
  /\ storage = Stored(CompleteProfile)
  /\ InitCalibrator
  /\ InitMonitor
  /\ InitObserved

DisplayFrame ==
  \E metrics \in Frames :
    /\ PoseResults(metrics)
    /\ slouchFrames' <= requiredSlouchFrames + ExtraSlouchFrames
    /\ stats'.slouchFrames <= requiredSlouchFrames + ExtraSlouchFrames
    /\ stats'.goodFrames <= ExtraGoodFrames

NextDisplay ==
  /\ \/ PageInit
     \/ \E success \in BOOLEAN : StartCameraClick(success)
     \/ StartMonitoringClick
     \/ StopMonitoringClick
     \/ ResetSessionClick
     \/ \E strategy \in Strategies : StrategyChange(strategy)
     \/ DisplayFrame
  /\ Observe
  /\ UNCHANGED <<step, pose, report, screen, hook>>

SpecDisplay == InitDisplay /\ [][NextDisplay]_vars

(***************************************************************************)
(* usePostureMonitor (part_001): the effect that calls the asynchronous    *)
(* start() when the session was calibrated, and its cleanup.  start()      *)
(* gives way to other tasks only where it awaits something that is not     *)
(* settled yet: the loading of the scripts and the start of the camera.    *)
(* Between those (at, the position in start()) its steps follow one        *)
(* another with nothing in between.  The monitor is the                    *)
(* CalibratedPostureMonitor of this module, created on a new calibrator.   *)
(***************************************************************************)
MountedHook(calibrated) ==
  [mounted |-> TRUE, cleanedUp |-> FALSE,
   at |-> IF calibrated THEN "scripts" ELSE "returned",
   hasMonitor |-> FALSE, detector |-> "none", active |-> FALSE]

\* the component mounts; the effect reads sessionStorage.postureCalibrated
HookMount(calibrated) ==
  /\ hook = NoHook
  /\ Idle("mount")
  /\ hook' = MountedHook(calibrated)

\* every ensureScript has resolved (a failed load resolves as well); the
\* three classes are on window or are not
HookScriptsSettled(classes) ==
  /\ hook.mounted \/ hook.cleanedUp
  /\ hook.at = "scripts"
  /\ Idle("ensureScript")
  /\ hook' = [hook EXCEPT !.at = IF classes THEN "classes" ELSE "returned"]

\* calibratorRef.current = new PC(); loadCalibration(); hasCalibration()
HookLoadCalibration ==
  /\ hook.mounted \/ hook.cleanedUp
  /\ hook.at = "classes"
  /\ loadCalibration("default")
  /\ hook' = [hook EXCEPT !.at = IF hasCalibration' THEN "calibrated"
                                 ELSE "returned"]

\* the monitor is created, the hidden elements are, the detector is
\* created and initialized
HookInitialize(ok) ==
  /\ hook.mounted \/ hook.cleanedUp
  /\ hook.at = "calibrated"
  /\ Idle("initialize")
  /\ hook' = [hook EXCEPT !.hasMonitor = TRUE,
                          !.detector = IF ok THEN "initialized" ELSE "failed",
                          !.at = IF ok THEN "initialized" ELSE "returned"]

\* monitor.start(); setActive(true); detector.start(callback) up to its
\* await of camera.start()
HookMonitorStart ==
  /\ hook.mounted \/ hook.cleanedUp
  /\ hook.at = "initialized"
  /\ CalStart
  /\ hook' = [hook EXCEPT !.active = TRUE, !.detector = "starting",
                          !.at = "camera"]

\* camera.start() resolves; the stats interval is set.  What a camera that
\* was stopped while it was starting does is up to the MediaPipe library.
HookCameraStarted(running) ==
  /\ hook.mounted \/ hook.cleanedUp
  /\ hook.at = "camera"
  /\ hook.detector = "stopped" \/ running
  /\ Idle("cameraStart")
  /\ hook' = [hook EXCEPT !.detector = IF running THEN "started" ELSE @,
                          !.at = "running"]

\* the detector's callback on a pose result
HookResults(results) ==
  /\ hook.mounted \/ hook.cleanedUp
  /\ hook.detector = "started"
  /\ LET landmarks == extractLandmarks(results)
         metrics == IF IsNone(landmarks) THEN None
                    ELSE calculatePostureMetrics(landmarks)
     IN  /\ pose' = [landmarks |-> landmarks, metrics |-> metrics]
         /\ IF IsNone(metrics) THEN Idle("onResults")
            ELSE CalProcessFrame(metrics)
  /\ UNCHANGED hook

\* the effect's cleanup: detectorRef.current?.stop?.();
\* monitorRef.current?.stop?.()
HookCleanup ==
  /\ hook.mounted
  /\ hook.at \in {"scripts", "camera", "running", "returned"}
  /\ IF hook.hasMonitor THEN CalStop ELSE Idle("cleanup")
  /\ hook' = [hook EXCEPT
       !.mounted = FALSE,
       !.cleanedUp = TRUE,
       !.detector = IF @ \in {"initialized", "starting", "started"}
                    THEN "stopped" ELSE @]

(***************************************************************************)
(* SpecHook: one component using usePostureMonitor, mounted once and       *)
(* unmounted at any moment start() leaves room for, with the clock         *)
(* running; the detector delivers at most MaxHookFrames frames that are    *)
(* counted.                                                                *)
(***************************************************************************)
HookFrames == DetectorResults

InitHook ==
  /\ variant = "calibrated"
  /\ now = 0
  /\ storage \in {Absent, Stored(CompleteProfile)}
  /\ InitCalibrator
  /\ InitMonitor
  /\ InitObserved

HookStep ==
  \/ \E calibrated \in BOOLEAN : HookMount(calibrated)
  \/ \E classes \in BOOLEAN : HookScriptsSettled(classes)
  \/ HookLoadCalibration
  \/ \E ok \in BOOLEAN : HookInitialize(ok)
  \/ HookMonitorStart
  \/ \E running \in BOOLEAN : HookCameraStarted(running)
  \/ HookCleanup

NextHook ==
  /\ \/ HookStep /\ UNCHANGED pose
     \/ Tick /\ UNCHANGED <<pose, hook>>
     \/ \E results \in HookFrames :
          /\ HookResults(results)
          /\ stats'.totalFrames <= MaxHookFrames
  /\ Observe
  /\ UNCHANGED <<step, page, report, screen>>

SpecHook == InitHook /\ [][NextHook]_vars

(***************************************************************************)
(* Properties.                                                             *)
(***************************************************************************)
Fired(callback) == Count(fired, callback) >= 1

\* C1: in CalibratedPostureMonitor and BalancedPostureMonitor, a session
\* that starts in GOOD invokes onSlouchDetected on no slouching verdict of a
\* run shorter than requiredSlouchFrames, invokes it exactly once on the
\* requiredSlouchFrames-th consecutive slouching verdict, and does not
\* invoke it again (whether the run goes on or is interrupted by fewer than
\* requiredGoodFrames good verdicts) until a correction has occurred.
C1_SlouchAlertOnce ==
  variant \in Debounced =>
    /\ openAlerts <= 1
    /\ Fired("onSlouchDetected") =>
         /\ fired = <<"onSlouchDetected">>
         /\ slouchRun = requiredSlouchFrames
    /\ slouchRun >= requiredSlouchFrames => openAlerts = 1

\* the alert is active, its run was interrupted by a good verdict and a new
\* run of slouching verdicts has begun without a second alert
C1_Witness ==
  /\ variant = "calibrated"
  /\ op = "processFrame"
  /\ ret = "slouching"
  /\ openAlerts = 1
  /\ stats.alerts = 1
  /\ slouchRun = 1
  /\ stats.slouchFrames = requiredSlouchFrames + 1

\* C2: in CalibratedPostureMonitor and BalancedPostureMonitor, while an
\* alert is active, the requiredGoodFrames-th consecutive good verdict
\* invokes onPostureCorrected exactly once, no shorter run of good verdicts
\* invokes it, and a slouching verdict sets the good-streak counter to 0.
C2_CorrectionOnce ==
  variant \in Debounced =>
    /\ openAlerts >= 0
    /\ Fired("onPostureCorrected") =>
         /\ fired = <<"onPostureCorrected">>
         /\ goodRun = requiredGoodFrames
    /\ openAlerts = 1 => goodRun < requiredGoodFrames
    /\ (op = "processFrame" /\ ret = "slouching") =>
         goodPostureFrames = 0 /\ goodRun = 0
    /\ goodPostureFrames <= goodRun

\* the correction fires on a streak that had to start again after a
\* slouching verdict interrupted an earlier good streak
C2_Witness ==
  /\ variant = "balanced"
  /\ fired = <<"onPostureCorrected">>
  /\ goodRun = requiredGoodFrames
  /\ stats.goodFrames > requiredGoodFrames
  /\ stats.slouchFrames > requiredSlouchFrames

C4_StartRefused ==
  [][(CalStart /\ ~hasCalibration)
       => (ret' = "false" /\ fired' = <<>> /\ UNCHANGED monVars)]_vars

\* start() has been refused while an earlier session's counters and clock
\* are still in the monitor
C4_Witness ==
  /\ op = "start"
  /\ ret = "false"
  /\ ~hasCalibration
  /\ isMonitoring
  /\ stats.totalFrames > 0
  /\ slouchFrames > 0

\* C5: in every variant, processFrame called while the monitor is not
\* monitoring (before start(), after stop()) or with absent metrics
\* returns null, invokes no callback and changes no field of the monitor
\* or of the calibrator; stop() in any state leaves the monitor not
\* monitoring, and only start() makes it monitor again.
C5_IgnoredFrameIsNoOp ==
  [][/\ \A metrics \in Frames :
          ((~isMonitoring \/ IsNone(metrics)) /\ ProcessFrame(metrics))
            => /\ ret' = "null"
               /\ fired' = <<>>
               /\ UNCHANGED <<monVars, calVars>>
     /\ Stop => ~isMonitoring'
     /\ (~isMonitoring /\ isMonitoring') => op' = "start"]_vars

\* a frame arrives after stop() while an alert is still active
C5_Witness ==
  /\ op = "processFrame"
  /\ ret = "null"
  /\ ~isMonitoring
  /\ isCurrentlySlouched
  /\ stats.totalFrames > 0

\* C6: resetSession() in any state sets both streak counters to 0 and the
\* alert flag to GOOD, sets lastDriftCheck to now, invokes no callback, and
\* in BalancedPostureMonitor and PostureMonitor discards the session
\* baseline, so that the next frame processed becomes the baseline.
C6_ResetSession ==
  [][/\ ResetSession =>
          /\ slouchFrames' = 0
          /\ goodPostureFrames' = 0
          /\ ~isCurrentlySlouched'
          /\ lastDriftCheck' = now'
          /\ fired' = <<>>
          /\ variant \in {"balanced", "demo"} => IsNone(sessionBaseline')
     /\ \A m \in Metrics :
          (/\ op = "resetSession"
           /\ isMonitoring
           /\ variant \in {"balanced", "demo"}
           /\ ProcessFrame(Some(m)))
            => sessionBaseline' = Some(m)]_vars

\* resetSession() has been called while the alert was active, after the
\* clock had moved on from the session's start
C6_Witness ==
  /\ op = "resetSession"
  /\ variant = "calibrated"
  /\ stats.alerts = 1
  /\ stats.goodFrames = 0
  /\ now > sessionStartTime
  /\ sessionStartTime >= 0
  /\ lastDriftCheck = now

\* C7: in every variant, between two calls of start() or resetSession()
\* the callbacks alternate beginning with onSlouchDetected; a frame invokes
\* onSlouchDetected exactly when it takes the state from GOOD to SLOUCHED,
\* onPostureCorrected exactly when it takes it from SLOUCHED to GOOD and
\* nothing otherwise, and stats.alerts goes up by one exactly on the
\* transitions from GOOD to SLOUCHED.
C7_EdgeTriggered ==
  [][/\ openAlerts' \in {0, 1}
     /\ op' = "processFrame" =>
          /\ fired' =
               IF ~isCurrentlySlouched /\ isCurrentlySlouched'
               THEN <<"onSlouchDetected">>
               ELSE IF isCurrentlySlouched /\ ~isCurrentlySlouched'
               THEN <<"onPostureCorrected">>
               ELSE <<>>
          /\ stats'.alerts =
               stats.alerts + Count(fired', "onSlouchDetected")]_vars

\* C8: in every variant, after start() succeeds the monitor is in state
\* GOOD and its slouch streak and good streak are 0.
C8_StartIsFresh ==
  (op = "start" /\ ret # "false") =>
    /\ isMonitoring
    /\ ~isCurrentlySlouched
    /\ slouchFrames = 0
    /\ goodPostureFrames = 0

\* C9: in every variant, after start() succeeds the statistics totalFrames,
\* slouchFrames, goodFrames and alerts are all zero.
C9_StartResetsStats ==
  (op = "start" /\ ret # "false") => stats = ZeroStats

\* C10: under any interleaving of the calibrator's operations with those
\* of a CalibratedPostureMonitor, every processFrame call returns a verdict
\* or null: none throws.
C10_ProcessFrameNeverThrows ==
  op = "processFrame" => ret \in {"null", "slouching", "notSlouching"}

\* C11: on the demo page the calibration profile is read-only while
\* monitoring: no step taken with the page's isMonitoring flag set finalizes
\* a baseline, clears the calibration or changes calibrationData.
C11_CalibrationReadOnlyWhileMonitoring ==
  [][page.isMonitoring =>
       /\ calibrationData' = calibrationData
       /\ op' # "clearCalibration"
       /\ ~(isCalibrating /\ ~isCalibrating')]_vars

\* C12: PostureMonitor.start('ratio') called while the calibrator has no
\* complete calibration refuses to start: isMonitoring stays false.
C12_RatioStartRefused ==
  (/\ variant = "demo"
   /\ op = "start"
   /\ detectionStrategy = "ratio"
   /\ ~hasCalibration) => ~isMonitoring

\* C13: PostureMonitor applies hysteresis to the correction: the first
\* non-slouching frame after a slouching one, arriving while the alert is
\* raised, neither clears the alert nor fires onPostureCorrected.
C13_CorrectionHysteresis ==
  [][(/\ variant = "demo"
      /\ isCurrentlySlouched
      /\ op = "processFrame"
      /\ ret = "slouching"
      /\ op' = "processFrame"
      /\ ret' = "notSlouching")
     => (isCurrentlySlouched' /\ Count(fired', "onPostureCorrected") = 0)]_vars

\* C14: requiredFrames calls of addCalibrationFrame with the same metrics M
\* after startCalibration(kind) finalize the calibration and store, for
\* that kind, a baseline whose five features equal those of M.
C14_IdenticalFramesBaseline ==
  (/\ op = "addCalibrationFrame"
   /\ ret = "progress"
   /\ Len(calibrationFrames) = requiredFrames
   /\ \A i \in DOMAIN calibrationFrames :
        calibrationFrames[i] = calibrationFrames[1])
  => /\ ~isCalibrating
     /\ Val(calibrationData)[currentPostureType \o "Posture"]
          = Some(calibrationFrames[1])

OtherPosture(postureType) ==
  IF postureType = "good" THEN "slouchedPosture" ELSE "goodPosture"

Baselines == {Some(m) : m \in {GoodM, SlouchM, HunchM}}

\* C16: after any sequence of calibrator operations hasCalibration() is
\* truthy if and only if both the goodPosture and the slouchedPosture
\* baseline of the in-memory profile are populated.
C16_CompleteIffBoth ==
  hasCalibration <=>
    /\ calibrationData # None
    /\ Val(calibrationData).goodPosture \in Baselines
    /\ Val(calibrationData).slouchedPosture \in Baselines

\* one pose kind completed, the other never calibrated nor loaded
C16_Witness ==
  /\ op = "addCalibrationFrame"
  /\ Len(calibrationFrames) = requiredFrames
  /\ ~isCalibrating
  /\ Val(calibrationData).goodPosture = Some(GoodM)
  /\ Val(calibrationData).slouchedPosture = None
  /\ ~hasCalibration

\* C17: loadCalibration(identity) returns false when the persisted
\* profile's userId differs from the requested identity, and leaves the
\* in-memory calibration data as it was.
C17_ForeignProfileRejected ==
  [][op' = "loadCalibration" =>
       \A userId \in UserIds :
         (/\ storage.kind = "profile"
          /\ storage.data.userId # Some(userId)
          /\ loadCalibration(userId))
         => (ret' = "false" /\ calibrationData' = calibrationData)]_vars

\* a profile calibrated in memory survives the refused load of another
\* user's stored profile
C17_Witness ==
  /\ op = "loadCalibration"
  /\ ret = "false"
  /\ storage.kind = "profile"
  /\ calibrationData # None
  /\ Val(calibrationData).userId # storage.data.userId

\* C18: when the persisted value is absent or fails to parse,
\* loadCalibration returns false without throwing and leaves the in-memory
\* calibration data unchanged.
C18_MissingOrCorruptIsNotFound ==
  [][op' = "loadCalibration" =>
       \A userId \in UserIds :
         (/\ storage.kind \in {"absent", "corrupt"}
          /\ loadCalibration(userId))
         => (ret' = "false" /\ calibrationData' = calibrationData)]_vars

C18_Witness ==
  /\ op = "loadCalibration"
  /\ ret = "false"
  /\ storage.kind = "corrupt"
  /\ calibrationData # None

\* C19: checkIfRecalibrationNeeded(sample) reports 'within range' whenever
\* every feature of the sample equals the corresponding feature of the
\* stored good-posture baseline, baselines with a feature equal to 0
\* included.
C19_SampleEqualToBaseline ==
  [][op' = "checkIfRecalibrationNeeded" =>
       \A sample \in SampleMetrics :
         (/\ calibrationData # None
          /\ Val(calibrationData).goodPosture = Some(sample)
          /\ checkIfRecalibrationNeeded(sample))
         => ret' = "withinRange"]_vars

\* a baseline with zero features, and a sample found within range of it
C19_Witness ==
  /\ op = "checkIfRecalibrationNeeded"
  /\ ret = "withinRange"
  /\ calibrationData # None
  /\ Val(Val(calibrationData).goodPosture).shoulderAsymmetry = 0
  /\ Val(Val(calibrationData).goodPosture).headShoulderRatio = 0

\* C20: calculatePostureMetrics applied to a landmark set whose
\* leftShoulder and rightShoulder coincide returns null, never a metrics
\* record whose ratios come from a division by zero.
C20_CoincidingShouldersFail ==
  (/\ op = "calculatePostureMetrics"
   /\ pose.landmarks # None
   /\ Val(pose.landmarks).leftShoulder # None
   /\ Val(pose.landmarks).leftShoulder = Val(pose.landmarks).rightShoulder)
  => pose.metrics = None

\* C21: for every landmark set with positive shoulder width, the torsoAngle
\* and the neckAngle returned by calculatePostureMetrics lie in [0, 180]:
\* calculateAngle replaces a difference of directions above 180 by 360
\* minus it.
C21_AnglesFolded ==
  (/\ op = "calculatePostureMetrics"
   /\ pose.metrics # None
   /\ Val(pose.metrics).shoulderWidth > 0)
  => /\ Val(pose.metrics).torsoAngle \in 0..180
     /\ Val(pose.metrics).neckAngle \in 0..180

\* a detected pose whose torso directions differ by more than 180 degrees
C21_Witness ==
  /\ op = "calculatePostureMetrics"
  /\ pose.metrics # None
  /\ Val(pose.metrics).shoulderWidth > 0
  /\ LET at(name) == Val(Val(pose.landmarks)[name])
         shoulderMidpoint == getMidpoint(at("leftShoulder"),
                                         at("rightShoulder"))
         hipMidpoint == getMidpoint(at("leftHip"), at("rightHip"))
     IN  /\ atan2(2, 0) - atan2(shoulderMidpoint.y - hipMidpoint.y,
                                shoulderMidpoint.x - hipMidpoint.x) > 180
         /\ Val(pose.metrics).torsoAngle < 180

\* C22: when the detector reports no pose landmarks, or a landmark set with
\* a required point missing, extractLandmarks / calculatePostureMetrics
\* yield null without throwing and the frame is skipped: the monitor's
\* state and statistics and the calibration accumulator are unchanged, and
\* no verdict or callback is produced.
C22_NoPersonSkipped ==
  [][(/\ op' = "onPoseResults"
      /\ \/ IsNone(pose'.landmarks)
         \/ \E name \in LandmarkNames : IsNone(Val(pose'.landmarks)[name]))
     => /\ IsNone(pose'.metrics)
        /\ UNCHANGED <<calVars, monVars>>
        /\ ret' = "undefined"
        /\ fired' = <<>>]_vars

\* a result with a missing landmark arrives while the page is calibrating
\* and monitoring, with frames already collected and counted
C22_Witness ==
  /\ op = "onPoseResults"
  /\ ~IsNone(pose.landmarks)
  /\ \E name \in LandmarkNames : IsNone(Val(pose.landmarks)[name])
  /\ IsNone(pose.metrics)
  /\ page.isCalibrating /\ isCalibrating
  /\ page.isMonitoring /\ isMonitoring
  /\ Len(calibrationFrames) > 0
  /\ stats.totalFrames > 0

\* C23: getStats() reports a posture quality that is goodFrames /
\* totalFrames * 100 rounded to one decimal (a tenth nearest to the
\* quotient) whenever totalFrames > 0, and 0 when totalFrames is 0; the
\* value never exceeds 100.
C23_PostureQuality ==
  (op = "getStats")
  => LET quality == Val(report).postureQuality
     IN  /\ stats.totalFrames = 0 => quality = 0
         /\ stats.totalFrames > 0 =>
              Abs(2 * quality * stats.totalFrames - 2000 * stats.goodFrames)
                <= stats.totalFrames
         /\ quality <= 1000

\* getStats() on a session whose quotient lies midway between two tenths
\* (23 good frames of 80: 28.75) and is shown as the lower one, the product
\* in binary64 being just below the quotient
C23_Witness ==
  /\ op = "getStats"
  /\ stats.totalFrames > 0
  /\ 2 * Val(report).postureQuality * stats.totalFrames
       = 2000 * stats.goodFrames - stats.totalFrames

\* the features of analyzePostureVsCalibration whose tolerance the metrics
\* c exceed against the baseline g (hundredths and degrees)
Exceeded(c, g) ==
  {feature \in DOMAIN GoodM :
     CASE feature = "headShoulderRatio" ->
            100 * Abs(c[feature] - g[feature]) > 20 * g[feature]
       [] feature = "shoulderAsymmetry" -> c[feature] > g[feature] + 5
       [] feature = "torsoAngle" -> Abs(c[feature] - g[feature]) > 18
       [] feature = "neckAngle" -> Abs(c[feature] - g[feature]) > 20
       [] feature = "forwardLean" ->
            100 * Abs(c[feature] - g[feature]) > 30 * g[feature]}

\* C24: analyzePostureVsCalibration returns isSlouching = true exactly when
\* at least two feature tolerances are exceeded or the summed weighted
\* deviation is greater than 35, and reports severity 'severe' when that
\* sum is greater than 60, 'moderate' when greater than 40, otherwise
\* 'mild'.
C24_VerdictAndSeverity ==
  (op = "analyzePostureVsCalibration" /\ ret = "analysis")
  => LET result == Val(report).analysis
         total == Val(report).totalDeviation
         exceeded == Exceeded(Val(pose.metrics),
                              Val(Val(calibrationData).goodPosture))
         Above(k) == Val(report).infinite \/ FracGt(total, k)
     IN  /\ result.isSlouching <=> (Cardinality(exceeded) >= 2 \/ Above(35))
         /\ result.severity = IF Above(60) THEN "severe"
                              ELSE IF Above(40) THEN "moderate"
                              ELSE "mild"

\* one tolerance exceeded with a summed deviation below 35: not slouching,
\* severity mild
C24_Witness ==
  /\ op = "analyzePostureVsCalibration" /\ ret = "analysis"
  /\ Len(Val(report).analysis.issues) = 1
  /\ ~Val(report).infinite
  /\ ~FracGt(Val(report).totalDeviation, 35)
  /\ ~Val(report).analysis.isSlouching
  /\ Val(report).analysis.severity = "mild"

\* the weight of the feature behind an issue of analyzePostureVsCalibration
IssueWeight(issue) ==
  CASE issue = "forward head posture" -> 30
    [] issue = "uneven shoulders" -> 20
    [] issue = "hunched spine" -> 25
    [] issue = "head tilted down" -> 20
    [] issue = "leaning into screen" -> 15

\* C30: in analyzePostureVsCalibration each exceeded feature contributes
\* (diff / tolerance) * weight to totalDeviation, with weights 30, 20, 25,
\* 20, 15; consequently an exceeded feature contributes strictly more than
\* its own weight: when exactly one tolerance is exceeded, totalDeviation
\* is greater than the weight of that feature.
C30_ContributionAboveWeight ==
  (/\ op = "analyzePostureVsCalibration" /\ ret = "analysis"
   /\ Len(Val(report).analysis.issues) = 1
   /\ ~Val(report).infinite)
  => FracGt(Val(report).totalDeviation,
            IssueWeight(Val(report).analysis.issues[1]))

\* C25: with strategy 'both', PostureMonitor's per-frame verdict is the
\* logical OR of the two strategies: the frame is treated as slouching if
\* and only if the calibrated-comparison check reports slouching or the
\* baseline-drift check reports drifting.
C25_BothIsOr ==
  (/\ op = "processFrame"
   /\ report # None
   /\ detectionStrategy = "both")
  => LET c == Val(pose.metrics)
         slouching ==
           \/ checkRatioBasedPosture(c, calibrationData).isSlouching
           \/ checkDriftBasedPosture(c, sessionBaseline).isDrifting
     IN  /\ Val(report).isSlouching <=> slouching
         /\ ret = Verdict(slouching)

\* a frame that only the drift check flags is treated as slouching
C25_Witness ==
  /\ op = "processFrame"
  /\ report # None
  /\ detectionStrategy = "both"
  /\ ~checkRatioBasedPosture(Val(pose.metrics), calibrationData).isSlouching
  /\ checkDriftBasedPosture(Val(pose.metrics), sessionBaseline).isDrifting
  /\ ret = "slouching"
  /\ stats.slouchFrames > 0

\* C26: with strategy 'both', when the calibrated-comparison check and the
\* baseline-drift check both flag the same frame, the reason carried by
\* the verdict is the concatenation of both strategies' reason strings, so
\* the drift reason is not lost.
C26_ReasonsConcatenated ==
  (/\ op = "processFrame"
   /\ report # None
   /\ detectionStrategy = "both"
   /\ checkRatioBasedPosture(Val(pose.metrics), calibrationData).isSlouching
   /\ checkDriftBasedPosture(Val(pose.metrics), sessionBaseline).isDrifting)
  => Val(report).issues
       = checkRatioBasedPosture(Val(pose.metrics), calibrationData).issues
           \o checkDriftBasedPosture(Val(pose.metrics), sessionBaseline).issues

\* C27: with CalibratedPostureMonitor's default configuration and the
\* assumed processing rate of 10 frames per second, the slouch alert is
\* raised only after 15 seconds of continuous slouching, i.e. not before
\* 150 consecutive slouching frames, and the duration reported in the
\* slouch event (slouchFrames / 10) is 15 seconds.
C27_AlertAfterFifteenSeconds ==
  (/\ variant = "calibrated"
   /\ op = "processFrame"
   /\ Fired("onSlouchDetected"))
  => /\ slouchRun >= 15 * framesPerSecond
     /\ slouchFrames = 15 * framesPerSecond

\* C28: when no calibrator object exists, once the user presses Start
\* Calibration the simulated progress carries the flow through the 'good'
\* step and the 'bad' step, and the screen eventually reaches 'success'
\* (where it records postureCalibrated) and navigates to the Sanctuary
\* screen.
C28_SimulationReachesSanctuary ==
  (OnScreen /\ screen.step = "good" /\ ~screen.hasCalibrator)
    ~> (screen.location = "sanctuary" /\ screen.postureCalibrated)

\* C29: calling startCalibration again before the collection has finalized
\* restarts it: the call leaves no frame collected, so the frames of the
\* collection are only those added after the most recent call (the pose
\* asked for by that call), and the baseline stored when the collection
\* finalizes is the mean of exactly those requiredFrames frames, stored
\* under the pose kind of the most recent call.
C29_RestartDiscards ==
  /\ op = "startCalibration" => isCalibrating /\ calibrationFrames = <<>>
  /\ isCalibrating =>
       \A i \in DOMAIN calibrationFrames : calibrationFrames[i] = PoseFrame
  /\ (op = "addCalibrationFrame" /\ ret = "progress" /\ ~isCalibrating) =>
       /\ Len(calibrationFrames) = requiredFrames
       /\ \A i \in DOMAIN calibrationFrames : calibrationFrames[i] = PoseFrame
       /\ Val(calibrationData)[currentPostureType \o "Posture"]
            = Some(AverageMetrics(calibrationFrames))
       /\ AverageMetrics(calibrationFrames) = PoseFrame

\* a collection restarted after frames had been pushed has finalized, as a
\* slouched one, and no good baseline was ever stored
C29_Witness ==
  /\ op = "addCalibrationFrame"
  /\ ret = "progress"
  /\ ~isCalibrating
  /\ step > requiredFrames
  /\ currentPostureType = "slouched"
  /\ IsNone(Val(calibrationData).goodPosture)
  /\ Val(calibrationData).slouchedPosture = Some(SlouchM)

\* C31: the relaxed baseline-drift strategy is more permissive than the
\* calibrated comparison: for every baseline B and current metrics M, if
\* BalancedPostureMonitor.detectSlouch with session baseline B declares M
\* slouching, then analyzePostureVsCalibration with goodPosture baseline B
\* declares M slouching too.
C31_RelaxedImpliesCalibrated ==
  (op = "analyzePostureVsCalibration" /\ ret = "analysis")
  => (detectSlouch(Val(pose.metrics),
                   Val(Val(calibrationData).goodPosture)).isSlouching
        => Val(report).analysis.isSlouching)

\* C32: the periodic drift check piggybacks on frames and never influences
\* debouncing.  It runs only inside processFrame, at most once per frame
\* and only when at least driftCheckInterval has elapsed since the last
\* check, and it then sets lastDriftCheck to the current time; otherwise
\* processFrame leaves lastDriftCheck alone.  A frame on which the check
\* runs changes the GOOD/SLOUCHED flag, the streak counters, the frame and
\* alert statistics and the session baseline exactly as the frame's verdict
\* and the debouncer's callbacks dictate: the check itself changes none of
\* them.
C32_DriftCheckPiggybacks ==
  [][ /\ op' = "processFrame" /\ driftChecked' =>
           /\ now - lastDriftCheck >= driftCheckInterval
           /\ lastDriftCheck' = now'
           /\ ret' \in {"slouching", "notSlouching"}
           /\ isCurrentlySlouched' =
                (IF Count(fired', "onSlouchDetected") > 0 THEN TRUE
                 ELSE IF Count(fired', "onPostureCorrected") > 0 THEN FALSE
                 ELSE isCurrentlySlouched)
           /\ slouchFrames' =
                (IF ret' = "slouching" THEN slouchFrames + 1 ELSE 0)
           /\ goodPostureFrames' =
                (IF variant = "demo" THEN goodPostureFrames
                 ELSE IF ret' = "slouching" THEN 0
                 ELSE goodPostureFrames + 1)
           /\ stats' =
                [totalFrames |-> stats.totalFrames + 1,
                 slouchFrames |-> stats.slouchFrames
                   + (IF ret' = "slouching" THEN 1 ELSE 0),
                 goodFrames |-> stats.goodFrames
                   + (IF ret' = "slouching" THEN 0 ELSE 1),
                 alerts |-> stats.alerts
                   + Count(fired', "onSlouchDetected")]
           /\ IsNone(sessionBaseline) \/ sessionBaseline' = sessionBaseline
      /\ op' = "processFrame" /\ ~driftChecked' =>
           lastDriftCheck' = lastDriftCheck
      /\ op' \notin {"processFrame", "start", "resetSession"} =>
           /\ lastDriftCheck' = lastDriftCheck
           /\ ~driftChecked'
    ]_vars

\* the check has just run on a slouching frame in the middle of a streak,
\* one interval or more into the session
C32_Witness ==
  /\ op = "processFrame"
  /\ driftChecked
  /\ lastDriftCheck = now
  /\ now >= driftCheckInterval
  /\ ret = "slouching"
  /\ slouchRun >= 2
  /\ ~isCurrentlySlouched

\* C33: the session baseline is created from the first frame processed
\* after the most recent start() or resetSession() (both discard it) and
\* is equal to that frame's metrics; no later processFrame call changes it
\* until the next start() or resetSession(), and neither does any other
\* call.
C33_BaselineFromFirstFrame ==
  [][ /\ op' \in {"start", "resetSession"} => IsNone(sessionBaseline')
      /\ op' = "processFrame" /\ ret' # "null" =>
           sessionBaseline' = (IF IsNone(sessionBaseline) THEN pose'.metrics
                               ELSE sessionBaseline)
      /\ \/ op' \notin {"start", "resetSession", "processFrame"}
         \/ op' = "processFrame" /\ ret' = "null"
         => sessionBaseline' = sessionBaseline
    ]_vars

\* a later frame with other metrics has been processed and found slouching
\* against the baseline the first frame of the session left
C33_Witness ==
  /\ op = "processFrame"
  /\ ret = "slouching"
  /\ sessionBaseline = Some(GoodM)
  /\ pose.metrics = Some(HunchM)
  /\ stats.totalFrames >= 2

\* C34: in every reachable state of CalibratedPostureMonitor and of
\* BalancedPostureMonitor at most one of the two streak counters is
\* non-zero: slouchFrames = 0 or goodPostureFrames = 0.
C34_OneStreakAtATime ==
  variant \in Debounced => (slouchFrames = 0 \/ goodPostureFrames = 0)

\* a slouching frame has just ended a streak of good frames
C34_Witness ==
  /\ variant \in Debounced
  /\ op = "processFrame"
  /\ ret = "slouching"
  /\ slouchFrames = 1
  /\ goodPostureFrames = 0
  /\ stats.goodFrames >= 1

\* C35: in every reachable state of every monitor variant the frame
\* statistics are consistent: stats.totalFrames = stats.slouchFrames +
\* stats.goodFrames, every counted frame is classified as exactly one of
\* slouching or good.
C35_EveryFrameClassified ==
  stats.totalFrames = stats.slouchFrames + stats.goodFrames

\* C36: in every reachable state of CalibratedPostureMonitor and of
\* BalancedPostureMonitor, state GOOD implies slouchFrames <
\* requiredSlouchFrames and state SLOUCHED implies goodPostureFrames <
\* requiredGoodFrames; hence every slouch-detected event is emitted with
\* slouchFrames exactly equal to requiredSlouchFrames.
C36_StateBoundsStreaks ==
  variant \in Debounced =>
    /\ ~isCurrentlySlouched => slouchFrames < requiredSlouchFrames
    /\ isCurrentlySlouched => goodPostureFrames < requiredGoodFrames
    /\ (op = "processFrame" /\ Fired("onSlouchDetected")) =>
         slouchFrames = requiredSlouchFrames

\* the alert has just been raised, on the frame that completed the streak
C36_Witness ==
  /\ variant \in Debounced
  /\ op = "processFrame"
  /\ Fired("onSlouchDetected")
  /\ isCurrentlySlouched
  /\ slouchFrames = requiredSlouchFrames
  /\ slouchRun = requiredSlouchFrames

\* C37: in every reachable state of PostureCalibrator the accumulator holds
\* at most requiredFrames frames, and while isCalibrating is true it holds
\* strictly fewer; therefore the progress returned by addCalibrationFrame
\* never exceeds 100 and is non-decreasing within one collection (from one
\* call to the next with no startCalibration between them).
C37_AccumulatorBounded ==
  [][ /\ Len(calibrationFrames') <= requiredFrames
      /\ isCalibrating' => Len(calibrationFrames') < requiredFrames
      /\ ~IsNone(progress') =>
           /\ Val(progress').n <= 100 * Val(progress').d
           /\ ~IsNone(progress) =>
                Val(progress').n * Val(progress).d
                  >= Val(progress).n * Val(progress').d
    ]_vars

\* the collection has just finalized on its last frame, with progress 100
C37_Witness ==
  /\ op = "addCalibrationFrame"
  /\ ~isCalibrating
  /\ Len(calibrationFrames) = requiredFrames
  /\ ~IsNone(progress)
  /\ Val(progress).n = 100 * Val(progress).d

\* C38: the calibrated classifier's result depends only on the current
\* metrics and the goodPosture baseline.  The result the last analysis
\* returned (isSlouching, issues, severity, totalDeviation) is the result
\* an analysis of the same metrics returns in the present state, whatever
\* has become of the slouchedPosture baseline since: two runs that differ
\* only in the slouchedPosture baseline return the same.
C38_SlouchedBaselineIrrelevant ==
  (~IsNone(report) /\ ~CalAnalysisThrows)
  => LET currentMetrics == Val(pose.metrics)
         goodPosture == Val(Val(calibrationData).goodPosture)
     IN  /\ Val(report).analysis
              = analyzePostureVsCalibration(currentMetrics, goodPosture)
         /\ Val(report).infinite
              = CalDeviationInfinite(currentMetrics, goodPosture)
         /\ Val(report).totalDeviation
              = CalDeviation(currentMetrics, goodPosture)

\* the slouched baseline has just been replaced (SlouchM by HunchM) after
\* metrics bent beyond the torso tolerance were analyzed and found not
\* slouching
C38_Witness ==
  /\ op = "addCalibrationFrame"
  /\ ~isCalibrating
  /\ Val(calibrationData).slouchedPosture = Some(HunchM)
  /\ Val(calibrationData).goodPosture = Some(GoodM)
  /\ ~IsNone(report)
  /\ pose.metrics = Some(BentM)
  /\ ~Val(report).analysis.isSlouching

\* C39: in the demo app, whenever the displayed posture status is
\* SLOUCHING (set by the slouch callback), the monitor's own current state
\* is slouched: no sequence of frames and button actions (reset session,
\* strategy change, stop and start of monitoring) leaves the display
\* showing SLOUCHING while the monitor is in state GOOD.
C39_DisplayFollowsMonitor ==
  page.postureStatus = "SLOUCHING" => isCurrentlySlouched

\* C40: in usePostureMonitor, once the component's cleanup (unmount) has
\* run, the detector and the monitor are stopped and stay stopped: for
\* every interleaving of the asynchronous start() (script loading, detector
\* initialisation) with the effect cleanup, no detector is started, no
\* monitor is started and no frame is processed after the cleanup.
C40_StoppedAfterCleanup ==
  hook.cleanedUp =>
    /\ ~isMonitoring
    /\ hook.detector \notin {"starting", "started"}
    /\ ~(op = "processFrame" /\ ret # "null")

====
